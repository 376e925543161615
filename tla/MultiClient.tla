---------------------------- MODULE MultiClient ----------------------------
(***************************************************************************)
(* client/multiweb.go and client/web.go: the connections of one identity   *)
(* merged into one client, as goroutines over channels. Each connection    *)
(* has a goroutine that reads its socket and one that writes to it; the    *)
(* client has a goroutine that reads from its connections and one that     *)
(* sends to them; the owner (lobby, game or user handler) posts to it,     *)
(* reads from it and hands it new connections.                             *)
(*                                                                         *)
(* The owner sends a connection a snapshot of its own state before it      *)
(* hands it over (handleJoin of the lobby and of a game). A snapshot is    *)
(* marked with the number of posts it contains.                            *)
(***************************************************************************)
EXTENDS Naturals, Sequences, FiniteSets, Functions, SequencesExt

CONSTANTS
    Conns,          \* connections the identity opens
    First,          \* the connection NewMultiWebClient is called with
    None,           \* no message, no connection
    ChanCap,        \* capacity of to and from, 100 in the code
    MaxPosts,       \* bound: messages of the owner
    MaxSent         \* bound: messages of each connection

ASSUME ClientAssumption ==
    /\ First \in Conns
    /\ None \notin Conns \cup (Conns \X Nat)
    /\ ChanCap \in Nat \ {0}
    /\ MaxPosts \in Nat
    /\ MaxSent \in [Conns -> Nat]

VARIABLES
    \* connections (WebClient)
    started,        \* connections whose Run has begun: counted and read
    counted,        \* the IpChecker's count of each connection
    sent,           \* messages each socket has delivered
    cfrom,          \* WebClient.from
    closed,         \* connections whose from is closed: the socket is gone
    cto,            \* WebClient.to
    done,           \* connections whose to is closed (Done)
    heard,          \* what was written to each socket
    \* the client (MultiWebClient)
    members,        \* c, the list of connections
    from,           \* from
    open,           \* whether from is open
    held,           \* message the reader is putting into from
    to,             \* to
    current,        \* message the sender is sending
    rest,           \* copy of the list the sender has not come to
    \* the owner
    posted,         \* number of posts
    joining,        \* connection in join that the owner waits for, or None
    panicked        \* a goroutine has panicked and the process is gone

web == <<started, counted, sent, cfrom, closed, cto, done, heard>>
reader == <<members, from, open, held>>
sender == <<to, current, rest>>
owner == <<posted, joining>>
vars == <<web, reader, sender, owner, panicked>>

Snapshot(n) == [kind |-> "Full", n |-> n]
News(n) == [kind |-> "News", n |-> n]

Init ==
    /\ started = {}
    /\ counted = [c \in Conns |-> 0]
    /\ sent = [c \in Conns |-> 0]
    /\ cfrom = [c \in Conns |-> <<>>]
    /\ closed = {}
    /\ cto = [c \in Conns |-> IF c = First THEN <<Snapshot(0)>> ELSE <<>>]
    /\ done = {}
    /\ heard = [c \in Conns |-> <<>>]
    /\ members = <<First>>
    /\ from = <<>>
    /\ open = TRUE
    /\ held = None
    /\ to = <<>>
    /\ current = None
    /\ rest = <<>>
    /\ posted = 0
    /\ joining = None
    /\ panicked = FALSE

----------------------------------------------------------------------------
(***************************************************************************)
(* Goroutines of a connection.                                             *)
(***************************************************************************)

\* Run: the connection is counted, then its reader starts.
Run(c) ==
    /\ ~ panicked
    /\ c \notin started
    /\ started' = started \cup {c}
    /\ counted' = [counted EXCEPT ![c] = @ + 1]
    /\ UNCHANGED <<sent, cfrom, closed, cto, done, heard, reader, sender, owner, panicked>>

\* Mutant of Reading: the reader starts before the connection is counted.
ReadingEarly(c) == c \notin closed

Reading(c) == c \in started /\ c \notin closed

\* read: a message arrives on the socket. The reader waits while from is full.
ReadSocket(c) ==
    /\ ~ panicked
    /\ Reading(c)
    /\ sent[c] < MaxSent[c]
    /\ Len(cfrom[c]) < ChanCap
    /\ sent' = [sent EXCEPT ![c] = @ + 1]
    /\ cfrom' = [cfrom EXCEPT ![c] = Append(@, <<c, sent[c] + 1>>)]
    /\ UNCHANGED <<started, counted, closed, cto, done, heard, reader, sender, owner, panicked>>

\* read: the socket fails.
LoseSocket(c) ==
    /\ ~ panicked
    /\ Reading(c)
    /\ closed' = closed \cup {c}
    /\ UNCHANGED <<started, counted, sent, cfrom, cto, done, heard, reader, sender, owner, panicked>>

\* A failed write is reported and the writer goes on.
Writable(c) == c \in started

\* send: a message is written. The tables of a snapshot are shared with the owner
\* and read only now, so it may contain any post made since.
WriteSocket(c) ==
    /\ ~ panicked
    /\ Writable(c)
    /\ cto[c] # <<>>
    /\ cto' = [cto EXCEPT ![c] = Tail(@)]
    /\ IF c \in closed THEN heard' = heard
       ELSE IF Head(cto[c]).kind = "Full"
         THEN \E n \in Head(cto[c]).n .. posted :
                 heard' = [heard EXCEPT ![c] = Append(@, Snapshot(n))]
         ELSE heard' = [heard EXCEPT ![c] = Append(@, Head(cto[c]))]
    /\ UNCHANGED <<started, counted, sent, cfrom, closed, done, reader, sender, owner, panicked>>

----------------------------------------------------------------------------
(***************************************************************************)
(* The goroutine read of the client.                                       *)
(***************************************************************************)
\* Mutant of Selecting: reading ends with the last connection.
SelectingMembers == held = None /\ members # <<>>

Selecting == ~ panicked /\ held = None

\* Mutant of Reopened: the channel is replaced with every connection.
ReopenedAlways == TRUE

\* Whether add replaces from by a new channel.
Reopened == members = <<>>

\* A connection joins (add), and the owner goes on.
ReadJoin ==
    /\ Selecting
    /\ joining # None
    /\ members' = Append(members, joining)
    /\ from' = IF Reopened THEN <<>> ELSE from
    /\ open' = TRUE
    /\ joining' = None
    /\ UNCHANGED <<web, held, sender, posted, panicked>>

\* A message of connection c is taken.
ReadMessage(c) ==
    /\ Selecting
    /\ c \in Range(members)
    /\ cfrom[c] # <<>>
    /\ held' = Head(cfrom[c])
    /\ cfrom' = [cfrom EXCEPT ![c] = Tail(@)]
    /\ UNCHANGED <<started, counted, sent, closed, cto, done, heard>>
    /\ UNCHANGED <<members, from, open, sender, owner, panicked>>

\* The message is passed on. The reader waits while from is full.
Expose ==
    /\ ~ panicked
    /\ held # None
    /\ Len(from) < ChanCap
    /\ from' = Append(from, held)
    /\ held' = None
    /\ UNCHANGED <<web, members, open, sender, owner, panicked>>

\* Mutant of Drained: what the connection has sent is not read to the end.
DrainedOrNot(c) == TRUE

Drained(c) == cfrom[c] = <<>>

\* A connection is found closed (remove): it is no longer counted, its to is
\* closed, and with the last one from is closed.
ReadEnd(c) ==
    /\ Selecting
    /\ c \in Range(members) \cap closed
    /\ Drained(c)
    /\ IF counted[c] = 0
         THEN /\ panicked' = TRUE
              /\ UNCHANGED <<counted, done, members, open>>
         ELSE /\ counted' = [counted EXCEPT ![c] = @ - 1]
              /\ done' = done \cup {c}
              /\ members' = RemoveFirst(members, c)
              /\ open' = (members' # <<>>)
              /\ UNCHANGED panicked
    /\ UNCHANGED <<started, sent, cfrom, closed, cto, heard, from, held, sender, owner>>

----------------------------------------------------------------------------
(***************************************************************************)
(* The goroutine send of the client.                                       *)
(***************************************************************************)
\* Mutant of Recipients: only the first connection.
RecipientsFirst == IF members = <<>> THEN <<>> ELSE <<Head(members)>>

\* getc, under the lock.
Recipients == members

SendTake ==
    /\ ~ panicked
    /\ rest = <<>>
    /\ to # <<>>
    /\ current' = Head(to)
    /\ to' = Tail(to)
    /\ rest' = Recipients
    /\ UNCHANGED <<web, reader, owner, panicked>>

\* c.Send, which panics when to has been closed in the meantime.
SendOne ==
    LET c == Head(rest)
    IN /\ ~ panicked
       /\ rest # <<>>
       /\ IF c \in done
            THEN panicked' = TRUE /\ UNCHANGED <<cto, rest>>
            ELSE /\ Len(cto[c]) < ChanCap
                 /\ cto' = [cto EXCEPT ![c] = Append(@, News(current))]
                 /\ rest' = Tail(rest)
                 /\ UNCHANGED panicked
       /\ UNCHANGED <<started, counted, sent, cfrom, closed, done, heard>>
       /\ UNCHANGED <<reader, to, current, owner>>

----------------------------------------------------------------------------
(***************************************************************************)
(* The goroutine of the owner.                                             *)
(***************************************************************************)
OwnerFree == ~ panicked /\ joining = None

OwnerPost ==
    /\ OwnerFree
    /\ posted < MaxPosts
    /\ Len(to) < ChanCap
    /\ posted' = posted + 1
    /\ to' = Append(to, posted + 1)
    /\ UNCHANGED <<web, reader, current, rest, joining, panicked>>

OwnerRead ==
    /\ OwnerFree
    /\ from # <<>>
    /\ from' = Tail(from)
    /\ UNCHANGED <<web, members, open, held, sender, owner, panicked>>

\* Mutant of Newest: the snapshot is older than the last post.
NewestLess == IF posted = 0 THEN 0 ELSE posted - 1

\* The snapshot contains everything posted so far.
Newest == posted

\* Mutant of Fresh: a connection is handed over again.
FreshAgain(c) == c \notin done

Fresh(c) == c \notin Range(members) /\ c \notin done

\* handleJoin and Consume: the snapshot is sent to the connection directly, then
\* the owner waits until the reader has taken the connection.
OwnerConsume(c) ==
    /\ OwnerFree
    /\ Fresh(c)
    /\ cto' = [cto EXCEPT ![c] = Append(@, Snapshot(Newest))]
    /\ joining' = c
    /\ UNCHANGED <<started, counted, sent, cfrom, closed, done, heard>>
    /\ UNCHANGED <<reader, sender, posted, panicked>>

----------------------------------------------------------------------------
Next ==
    \/ \E c \in Conns :
         \/ Run(c) \/ ReadSocket(c) \/ LoseSocket(c) \/ WriteSocket(c)
         \/ ReadMessage(c) \/ ReadEnd(c)
         \/ OwnerConsume(c)
    \/ ReadJoin \/ Expose \/ SendTake \/ SendOne
    \/ OwnerPost \/ OwnerRead

(***************************************************************************)
(* Goroutines that can run do run. Sockets take what is written to them.   *)
(* The owner reads when it is free; the readers' select statements pick    *)
(* among what is ready at random. Nothing is assumed of the users.         *)
(***************************************************************************)
Fairness ==
    /\ \A c \in Conns :
         WF_vars(Run(c)) /\ WF_vars(WriteSocket(c)) /\ SF_vars(ReadMessage(c))
                         /\ SF_vars(ReadEnd(c))
    /\ SF_vars(ReadJoin) /\ WF_vars(Expose)
    /\ WF_vars(SendTake) /\ WF_vars(SendOne)
    /\ SF_vars(OwnerRead)

Spec == Init /\ [][Next]_vars

FairSpec == Spec /\ Fairness

----------------------------------------------------------------------------
(***************************************************************************)
(* Properties.                                                             *)
(***************************************************************************)
Messages == UNION {{c} \X (1..MaxSent[c]) : c \in Conns}

\* Every variable has its type; the channels keep to their capacity.
TypeOK ==
    /\ started \subseteq Conns
    /\ counted \in [Conns -> 0..1]
    /\ \A c \in Conns : sent[c] \in 0..MaxSent[c]
    /\ closed \subseteq Conns
    /\ done \subseteq Conns
    /\ \A c \in Conns : Len(cfrom[c]) <= ChanCap /\ Range(cfrom[c]) \subseteq Messages
    /\ \A c \in Conns : Len(cto[c]) <= ChanCap
    /\ Range(members) \subseteq Conns
    /\ Len(from) <= ChanCap /\ Range(from) \subseteq Messages
    /\ open \in BOOLEAN
    /\ held \in Messages \cup {None}
    /\ Len(to) <= ChanCap /\ Range(to) \subseteq 1..MaxPosts
    /\ current \in (1..MaxPosts) \cup {None}
    /\ Range(rest) \subseteq Conns
    /\ posted \in 0..MaxPosts
    /\ joining \in Conns \cup {None}
    /\ panicked \in BOOLEAN

\* What is on its way to connection c, behind what is in its to.
Behind(c) == (IF c \in Range(rest) THEN <<current>> ELSE <<>>) \o to

Numbers(s) == [i \in DOMAIN s |-> s[i].n]

\* The posts in s: a snapshot before them is none.
NewsIn(s) == Numbers(IF s # <<>> /\ Head(s).kind = "Full" THEN Tail(s) ELSE s)

\* The posts that connection c has yet to hear.
Unheard(c) == NewsIn(cto[c]) \o Behind(c)

\* The posts news follow what a connection was told, a snapshot and news: without a
\* gap, from the one after the snapshot at the latest to the last one posted.
NewsFollow(told, news) ==
    /\ told # <<>> /\ Head(told).kind = "Full"
    /\ \A i \in 2..Len(told) : told[i].kind = "News"
    /\ news = <<>> => Head(told).n = posted
    /\ news # <<>> =>
         /\ Head(news) <= Head(told).n + 1
         /\ news[Len(news)] = posted
         /\ \A i \in 1..(Len(news) - 1) : news[i + 1] = news[i] + 1

\* A connection that is told the state of the table and then the news misses
\* none, however the post, the copy of the list of connections and the joining
\* are interleaved. (The news may begin earlier than needed: some are already in
\* the snapshot.)
NoGapAfterSnapshot ==
    \A c \in Range(members) \ closed :
      LET told == heard[c] \o cto[c]
      IN NewsFollow(told, Numbers(Tail(told)) \o Behind(c))

\* A connection is taken from the IpChecker's count only after it was added to it,
\* though two goroutines do it: Sub panics on an address it does not know. It
\* holds because the reader that notices the end starts after Add (Run).
LeaverWasCounted ==
    \A c \in Range(members) \cap closed : counted[c] = 1

\* from is open exactly while there is a connection, and no message of a member
\* is left in a connection that is done with (remove, add).
OpenWhileMembers ==
    /\ open = (members # <<>>)
    /\ \A c \in done : cfrom[c] = <<>> /\ c \notin Range(members)

\* The refinement of ClientLink. What connection c sent is on its way in from,
\* among the messages of others, with the reader and in the connection's from.
Places(c, s) == {i \in DOMAIN s : s[i][1] = c}
Rank(K, i) == Cardinality({k \in K : k < i})
Nth(K, j) == CHOOSE i \in K : Rank(K, i) = j - 1

\* The messages of c in s, in their order.
NumbersOf(c, s) ==
    [j \in 1..Cardinality(Places(c, s)) |-> s[Nth(Places(c, s), j)][2]]

Seconds(s) == [i \in DOMAIN s |-> s[i][2]]
HeldOf(c) == IF held # None /\ held[1] = c THEN <<held[2]>> ELSE <<>>

Place(c) == IF c \in Range(members) THEN "inside" ELSE IF c \in done THEN "left" ELSE "outside"
Up(c) == (NumbersOf(c, from) \o HeldOf(c)) \o Seconds(cfrom[c])
Down(c) == IF c \in Range(members) THEN Unheard(c) ELSE <<>>

Link == INSTANCE ClientLink WITH
    place <- [c \in Conns |-> Place(c)],
    up <- [c \in Conns |-> Up(c)],
    down <- [c \in Conns |-> Down(c)]

\* The client implements the link: messages of one connection arrive in order
\* and are dropped only when all connections had gone, posts reach every member
\* in order (MultiWebClient, WebClient).
LinkKept == Link!LinkSpec

\* The reader waits for room in from and the owner waits for the reader.
Stuck == held # None /\ Len(from) = ChanCap

\* Handing over a connection comes to an end, unless at that moment from is full
\* and the reader holds a message: then owner and reader wait for each other for
\* ever (Consume, read).
ConsumeReturns == (joining # None) ~> (joining = None \/ Stuck \/ panicked)

\* The comment on Done of WebClient: it "only releases the write goroutine". It
\* fails: the sender works on a copy of the list, and sending to a connection
\* that was removed after the copy was made stops the process.
DoneOnlyReleases == ~ panicked
=============================================================================
