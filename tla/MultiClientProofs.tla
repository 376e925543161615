-------------------------- MODULE MultiClientProofs --------------------------
(***************************************************************************)
(* Theorems about MultiClient, for every number of connections, posts and  *)
(* messages and every capacity of the channels.                            *)
(***************************************************************************)
EXTENDS MultiClient, DataLemmas, FiniteSetTheorems, FunctionTheorems

-----------------------------------------------------------------------------
(* The invariant.                                                          *)

Packets == [kind : {"Full", "News"}, n : 0..MaxPosts]

ClientTypes ==
    /\ started \subseteq Conns
    /\ counted \in [Conns -> 0..1]
    /\ sent \in [Conns -> Nat]
    /\ \A c \in Conns : sent[c] <= MaxSent[c]
    /\ closed \subseteq Conns
    /\ done \subseteq Conns
    /\ cfrom \in [Conns -> Seq(Messages)]
    /\ \A c \in Conns : Len(cfrom[c]) <= ChanCap
    /\ cto \in [Conns -> Seq(Packets)]
    /\ \A c \in Conns : Len(cto[c]) <= ChanCap
    /\ heard \in [Conns -> Seq(Packets)]
    /\ members \in Seq(Conns)
    /\ from \in Seq(Messages) /\ Len(from) <= ChanCap
    /\ open \in BOOLEAN
    /\ held \in Messages \cup {None}
    /\ to \in Seq(1..MaxPosts) /\ Len(to) <= ChanCap
    /\ current \in (1..MaxPosts) \cup {None}
    /\ rest \in Seq(Conns)
    /\ posted \in 0..MaxPosts
    /\ joining \in Conns \cup {None}
    /\ panicked \in BOOLEAN

\* A connection is counted from when it is started until it is removed; it is
\* started before it is closed, and closed before it is removed.
Counting ==
    /\ done \subseteq closed
    /\ closed \subseteq started
    /\ \A c \in Conns : counted[c] = IF c \in started \ done THEN 1 ELSE 0

\* A connection is a member once, joins once, and is never a member again.
Membership ==
    /\ IsInjective(members)
    /\ Range(members) \cap done = {}
    /\ joining \notin Range(members) \cup done
    /\ open = (members # <<>>)
    /\ \A c \in done : cfrom[c] = <<>>

\* The number of the last post the sender has taken.
Taken == posted - Len(to)

\* What waits in to are the last posts, and the one being sent is the one before.
\* It is sent to connections that are members or have been.
Posting ==
    /\ \A i \in DOMAIN to : to[i] = Taken + i
    /\ Taken \in Nat
    /\ rest # <<>> => current = Taken
    /\ IsInjective(rest)
    /\ Range(rest) \subseteq Range(members) \cup done

\* A connection that has not been handed over has been sent nothing, and one that
\* is being handed over has been sent the snapshot. A snapshot comes first.
Handing ==
    /\ \A c \in Conns \ (Range(members) \cup done \cup {joining}) :
          cto[c] = <<>> /\ heard[c] = <<>>
    /\ \A c \in Conns : \A i \in DOMAIN cto[c] : i > 1 => cto[c][i].kind = "News"
    /\ joining # None => cto[joining] \in {<<>>, <<Snapshot(posted)>>}

\* All that was sent to connection c while it could be heard.
Stream(c) == heard[c] \o cto[c]

\* The number of the next post to be sent to c.
Coming(c) == IF c \in Range(rest) THEN Taken ELSE Taken + 1

\* Stream s is a snapshot and the posts up to the one before k, of which the first
\* is at the latest the one after the snapshot; p posts have been made.
GapFree(s, k, p) ==
    /\ s # <<>>
    /\ s[1].kind = "Full"
    /\ s[1].n <= p
    /\ k - Len(s) <= s[1].n
    /\ \A i \in 2..Len(s) : s[i] = News(k - Len(s) + i - 1)

Gapless(c) == GapFree(Stream(c), Coming(c), posted)

Listening ==
    /\ \A c \in Range(members) \ closed : Gapless(c)
    /\ joining \notin closed \cup {None} => Stream(joining) = <<Snapshot(posted)>>

\* Where the messages on their way up come from.
Origins ==
    /\ \A c \in Conns : \A i \in DOMAIN cfrom[c] : cfrom[c][i][1] = c
    /\ held # None => held[1] \in Range(members) \cup done
    /\ \A i \in DOMAIN from : from[i][1] \in Range(members) \cup done

ClientInv ==
    ClientTypes /\ Counting /\ Membership /\ Posting /\ Handing /\ Listening /\ Origins

-----------------------------------------------------------------------------
(* Types.                                                                  *)

LEMMA MessageType ==
    ASSUME NEW c \in Conns, NEW k \in Nat, k # 0, k <= MaxSent[c]
    PROVE  <<c, k>> \in Messages
BY ClientAssumption DEF Messages

LEMMA PacketType ==
    ASSUME NEW n \in 0..MaxPosts
    PROVE  /\ Snapshot(n) \in Packets /\ News(n) \in Packets
           /\ Snapshot(n).kind = "Full" /\ Snapshot(n).n = n
           /\ News(n).kind = "News" /\ News(n).n = n
BY DEF Packets, Snapshot, News

\* The goroutines of a connection.
LEMMA ConnTypes ==
    ASSUME ClientTypes, Counting, NEW c \in Conns,
           Run(c) \/ ReadSocket(c) \/ LoseSocket(c) \/ WriteSocket(c)
    PROVE  ClientTypes'
<1>1. CASE Run(c)
  <2>1. counted[c] = 0
    BY <1>1 DEF Run, Counting
  <2>2. counted' \in [Conns -> 0..1] /\ started' \subseteq Conns
    BY <1>1, <2>1 DEF Run, ClientTypes
  <2> QED
    BY <1>1, <2>2 DEF Run, ClientTypes, reader, sender, owner
<1>2. CASE ReadSocket(c)
  <2>1. sent[c] \in Nat /\ sent[c] < MaxSent[c] /\ MaxSent[c] \in Nat
    BY <1>2, ClientAssumption DEF ReadSocket, ClientTypes
  <2>2. <<c, sent[c] + 1>> \in Messages
    BY <2>1, MessageType
  <2>3. cfrom[c] \in Seq(Messages) /\ Len(cfrom[c]) < ChanCap
    BY <1>2 DEF ReadSocket, ClientTypes
  <2>4. /\ Append(cfrom[c], <<c, sent[c] + 1>>) \in Seq(Messages)
        /\ Len(Append(cfrom[c], <<c, sent[c] + 1>>)) <= ChanCap
    BY <2>2, <2>3, ClientAssumption
  <2>5. cfrom' \in [Conns -> Seq(Messages)] /\ \A d \in Conns : Len(cfrom'[d]) <= ChanCap
    BY <1>2, <2>4 DEF ReadSocket, ClientTypes
  <2>6. sent' \in [Conns -> Nat] /\ \A d \in Conns : sent'[d] <= MaxSent[d]
    <3>1. sent' = [sent EXCEPT ![c] = @ + 1] /\ sent \in [Conns -> Nat]
      BY <1>2 DEF ReadSocket, ClientTypes
    <3>2. sent' \in [Conns -> Nat]
      BY <2>1, <3>1
    <3>3. sent[c] + 1 <= MaxSent[c]
      BY <2>1
    <3>4. ASSUME NEW d \in Conns
          PROVE  sent'[d] <= MaxSent[d]
      BY <3>1, <3>3 DEF ClientTypes
    <3> QED
      BY <3>2, <3>4
  <2> QED
    BY <1>2, <2>5, <2>6 DEF ReadSocket, ClientTypes, reader, sender, owner
<1>3. CASE LoseSocket(c)
  BY <1>3 DEF LoseSocket, ClientTypes, reader, sender, owner
<1>4. CASE WriteSocket(c)
  <2>1. cto[c] \in Seq(Packets) /\ cto[c] # <<>> /\ Len(cto[c]) <= ChanCap
    BY <1>4 DEF WriteSocket, ClientTypes
  <2>2. /\ Head(cto[c]) \in Packets /\ Tail(cto[c]) \in Seq(Packets)
        /\ Len(Tail(cto[c])) <= ChanCap
    BY <2>1, ClientAssumption
  <2>3. cto' \in [Conns -> Seq(Packets)] /\ \A d \in Conns : Len(cto'[d]) <= ChanCap
    BY <1>4, <2>2 DEF WriteSocket, ClientTypes
  <2>4. heard' \in [Conns -> Seq(Packets)]
    <3>1. CASE c \in closed
      BY <1>4, <3>1 DEF WriteSocket, ClientTypes
    <3>2. CASE c \notin closed /\ Head(cto[c]).kind = "Full"
      <4>1. PICK n \in Head(cto[c]).n .. posted :
              heard' = [heard EXCEPT ![c] = Append(@, Snapshot(n))]
        BY <1>4, <3>2 DEF WriteSocket
      <4>2. n \in 0..MaxPosts
        <5>1. Head(cto[c]).n \in 0..MaxPosts /\ posted \in 0..MaxPosts
          BY <2>2 DEF Packets, ClientTypes
        <5> QED
          BY <5>1, ClientAssumption
      <4>3. Append(heard[c], Snapshot(n)) \in Seq(Packets)
        BY <4>2, PacketType DEF ClientTypes
      <4> QED
        BY <4>1, <4>3 DEF ClientTypes
    <3>3. CASE c \notin closed /\ Head(cto[c]).kind # "Full"
      <4>1. heard' = [heard EXCEPT ![c] = Append(@, Head(cto[c]))]
        BY <1>4, <3>3 DEF WriteSocket
      <4>2. Append(heard[c], Head(cto[c])) \in Seq(Packets)
        BY <2>2 DEF ClientTypes
      <4> QED
        BY <4>1, <4>2 DEF ClientTypes
    <3> QED
      BY <3>1, <3>2, <3>3
  <2> QED
    BY <1>4, <2>3, <2>4 DEF WriteSocket, ClientTypes, reader, sender, owner
<1> QED
  BY <1>1, <1>2, <1>3, <1>4

\* The goroutine that reads.
LEMMA ReaderTypes ==
    ASSUME ClientTypes, Membership,
           \/ ReadJoin \/ Expose
           \/ \E c \in Conns : ReadMessage(c) \/ ReadEnd(c)
    PROVE  ClientTypes'
<1>1. CASE ReadJoin
  <2>1. joining \in Conns /\ members \in Seq(Conns)
    BY <1>1 DEF ReadJoin, ClientTypes
  <2>2. Append(members, joining) \in Seq(Conns)
    BY <2>1
  <2>3. from' \in Seq(Messages) /\ Len(from') <= ChanCap
    <3>1. from' \in {from, <<>>}
      BY <1>1 DEF ReadJoin
    <3>2. from \in Seq(Messages) /\ Len(from) <= ChanCap
      BY DEF ClientTypes
    <3>3. <<>> \in Seq(Messages) /\ Len(<<>>) <= ChanCap
      BY ClientAssumption
    <3> QED
      BY <3>1, <3>2, <3>3
  <2> QED
    BY <1>1, <2>2, <2>3 DEF ReadJoin, ClientTypes, web, sender
<1>2. CASE Expose
  <2>1. held \in Messages /\ from \in Seq(Messages) /\ Len(from) < ChanCap
    BY <1>2 DEF Expose, ClientTypes
  <2>2. Append(from, held) \in Seq(Messages) /\ Len(Append(from, held)) <= ChanCap
    BY <2>1, ClientAssumption
  <2> QED
    BY <1>2, <2>2 DEF Expose, ClientTypes, web, sender, owner
<1>3. ASSUME NEW c \in Conns, ReadMessage(c)
      PROVE  ClientTypes'
  <2>1. cfrom[c] \in Seq(Messages) /\ cfrom[c] # <<>> /\ Len(cfrom[c]) <= ChanCap
    BY <1>3 DEF ReadMessage, ClientTypes
  <2>2. /\ Head(cfrom[c]) \in Messages /\ Tail(cfrom[c]) \in Seq(Messages)
        /\ Len(Tail(cfrom[c])) <= ChanCap
    BY <2>1, ClientAssumption
  <2>3. cfrom' \in [Conns -> Seq(Messages)] /\ \A d \in Conns : Len(cfrom'[d]) <= ChanCap
    BY <1>3, <2>2 DEF ReadMessage, ClientTypes
  <2> QED
    BY <1>3, <2>2, <2>3 DEF ReadMessage, ClientTypes, sender, owner
<1>4. ASSUME NEW c \in Conns, ReadEnd(c)
      PROVE  ClientTypes'
  <2>1. c \in Range(members) /\ members \in Seq(Conns) /\ IsInjective(members)
    BY <1>4 DEF ReadEnd, ClientTypes, Membership
  <2>2. RemoveFirst(members, c) \in Seq(Conns)
    BY <2>1, RemovedFirst
  <2>3. counted' \in [Conns -> 0..1] /\ members' \in Seq(Conns) /\ done' \subseteq Conns
        /\ open' \in BOOLEAN /\ panicked' \in BOOLEAN
    <3>1. CASE counted[c] = 0
      BY <1>4, <3>1 DEF ReadEnd, ClientTypes
    <3>2. CASE counted[c] # 0
      <4>1. counted \in [Conns -> 0..1] /\ counted[c] - 1 \in 0..1 /\ done \subseteq Conns
        <5>1. counted \in [Conns -> 0..1] /\ done \subseteq Conns
          BY DEF ClientTypes
        <5> QED
          BY <3>2, <5>1
      <4>2. /\ counted' = [counted EXCEPT ![c] = @ - 1] /\ done' = done \cup {c}
            /\ members' = RemoveFirst(members, c) /\ open' = (members' # <<>>)
            /\ panicked' = panicked
        BY <1>4, <3>2 DEF ReadEnd
      <4>3. counted' \in [Conns -> 0..1]
        BY <4>1, <4>2
      <4>4. done' \subseteq Conns
        BY <4>1, <4>2
      <4>5. open' \in BOOLEAN
        BY <4>2
      <4>6. panicked' \in BOOLEAN
        BY <4>2 DEF ClientTypes
      <4> QED
        BY <2>2, <4>2, <4>3, <4>4, <4>5, <4>6
    <3> QED
      BY <3>1, <3>2
  <2> QED
    BY <1>4, <2>3 DEF ReadEnd, ClientTypes, sender, owner
<1> QED
  BY <1>1, <1>2, <1>3, <1>4

\* The goroutine that sends, and the owner.
LEMMA SenderTypes ==
    ASSUME ClientTypes, Posting, Handing,
           \/ SendTake \/ SendOne \/ OwnerPost \/ OwnerRead
           \/ \E c \in Conns : OwnerConsume(c)
    PROVE  ClientTypes'
<1>1. CASE SendTake
  <2>1. to \in Seq(1..MaxPosts) /\ to # <<>> /\ Len(to) <= ChanCap
    BY <1>1 DEF SendTake, ClientTypes
  <2>2. Head(to) \in 1..MaxPosts /\ Tail(to) \in Seq(1..MaxPosts) /\ Len(Tail(to)) <= ChanCap
    BY <2>1, ClientAssumption
  <2> QED
    BY <1>1, <2>2 DEF SendTake, Recipients, ClientTypes, web, reader, owner
<1>2. CASE SendOne
  <2> DEFINE c == Head(rest)
  <2>1. c \in Conns /\ Tail(rest) \in Seq(Conns)
    BY <1>2 DEF SendOne, ClientTypes
  <2>2. current \in 0..MaxPosts
    BY <1>2, ClientAssumption DEF SendOne, Posting, ClientTypes, Taken
  <2>3. cto' \in [Conns -> Seq(Packets)] /\ \A d \in Conns : Len(cto'[d]) <= ChanCap
    <3>1. CASE c \in done
      BY <1>2, <3>1 DEF SendOne, ClientTypes
    <3>2. CASE c \notin done
      <4>1. cto' = [cto EXCEPT ![c] = Append(@, News(current))] /\ Len(cto[c]) < ChanCap
        BY <1>2, <3>2 DEF SendOne
      <4>2. cto[c] \in Seq(Packets)
        BY <2>1 DEF ClientTypes
      <4> DEFINE q == Append(cto[c], News(current))
      <4>3. q \in Seq(Packets) /\ Len(q) <= ChanCap
        <5>1. News(current) \in Packets
          BY <2>2, PacketType
        <5>2. q \in Seq(Packets) /\ Len(q) = Len(cto[c]) + 1 /\ Len(cto[c]) \in Nat
          BY <4>2, <5>1
        <5> QED
          BY <4>1, <5>2, ClientAssumption
      <4>4. cto' = [cto EXCEPT ![c] = q]
        BY <4>1
      <4> HIDE DEF c, q
      <4>5. cto \in [Conns -> Seq(Packets)] /\ \A d \in Conns : Len(cto[d]) <= ChanCap
        BY DEF ClientTypes
      <4> QED
        BY <2>1, <4>3, <4>4, <4>5
    <3> QED
      BY <3>1, <3>2
  <2>4. rest' \in Seq(Conns) /\ panicked' \in BOOLEAN
    BY <1>2, <2>1 DEF SendOne, ClientTypes
  <2> QED
    BY <1>2, <2>3, <2>4 DEF SendOne, ClientTypes, reader, owner
<1>3. CASE OwnerPost
  <2>1. posted + 1 \in 1..MaxPosts /\ to \in Seq(1..MaxPosts) /\ Len(to) < ChanCap
    <3>1. posted \in 0..MaxPosts /\ to \in Seq(1..MaxPosts) /\ MaxPosts \in Nat
      BY ClientAssumption DEF ClientTypes
    <3>2. posted < MaxPosts /\ Len(to) < ChanCap
      BY <1>3 DEF OwnerPost
    <3> QED
      BY <3>1, <3>2
  <2>2. Append(to, posted + 1) \in Seq(1..MaxPosts) /\ Len(Append(to, posted + 1)) <= ChanCap
    BY <2>1, ClientAssumption
  <2>3. posted' \in 0..MaxPosts /\ to' \in Seq(1..MaxPosts) /\ Len(to') <= ChanCap
    <3>1. posted' = posted + 1 /\ to' = Append(to, posted + 1)
      BY <1>3 DEF OwnerPost
    <3> QED
      BY <2>1, <2>2, <3>1
  <2> QED
    BY <1>3, <2>3 DEF OwnerPost, ClientTypes, web, reader
<1>4. CASE OwnerRead
  <2>1. from \in Seq(Messages) /\ from # <<>> /\ Len(from) <= ChanCap
    BY <1>4 DEF OwnerRead, ClientTypes
  <2>2. Tail(from) \in Seq(Messages) /\ Len(Tail(from)) <= ChanCap
    BY <2>1, ClientAssumption
  <2> QED
    BY <1>4, <2>2 DEF OwnerRead, ClientTypes, web, sender, owner
<1>5. ASSUME NEW c \in Conns, OwnerConsume(c)
      PROVE  ClientTypes'
  <2>1. cto[c] = <<>>
    BY <1>5, ClientAssumption DEF OwnerConsume, OwnerFree, Fresh, Handing
  <2>2. Snapshot(posted) \in Packets
    BY PacketType DEF ClientTypes
  <2>3. Append(cto[c], Snapshot(posted)) = <<Snapshot(posted)>>
    BY <2>1
  <2>4. cto' = [cto EXCEPT ![c] = <<Snapshot(posted)>>]
    BY <1>5, <2>3 DEF OwnerConsume, Newest
  <2>5. <<Snapshot(posted)>> \in Seq(Packets) /\ Len(<<Snapshot(posted)>>) <= ChanCap
    BY <2>2, ClientAssumption
  <2> DEFINE q == <<Snapshot(posted)>>
  <2>6. cto' \in [Conns -> Seq(Packets)] /\ \A d \in Conns : Len(cto'[d]) <= ChanCap
    <3>1. cto \in [Conns -> Seq(Packets)] /\ \A d \in Conns : Len(cto[d]) <= ChanCap
      BY DEF ClientTypes
    <3>2. q \in Seq(Packets) /\ Len(q) <= ChanCap /\ cto' = [cto EXCEPT ![c] = q]
      BY <2>4, <2>5
    <3> HIDE DEF q
    <3> QED
      BY <3>1, <3>2
  <2> QED
    BY <1>5, <2>6 DEF OwnerConsume, ClientTypes, reader, sender
<1> QED
  BY <1>1, <1>2, <1>3, <1>4, <1>5

-----------------------------------------------------------------------------
(* Counting and membership.                                                *)

LEMMA CountingStep ==
    ASSUME ClientTypes, Counting, [Next]_vars
    PROVE  Counting'
<1>1. ASSUME NEW c \in Conns, Run(c)
      PROVE  Counting'
  <2>1. /\ started' = started \cup {c} /\ counted' = [counted EXCEPT ![c] = @ + 1]
        /\ closed' = closed /\ done' = done /\ c \notin started
    BY <1>1 DEF Run
  <2>2. done' \subseteq closed' /\ closed' \subseteq started' /\ c \notin done
    BY <2>1 DEF Counting
  <2>3. counted \in [Conns -> 0..1] /\ counted[c] = 0
    BY <2>1 DEF Counting, ClientTypes
  <2>4. counted'[c] = 1 /\ \A d \in Conns : d # c => counted'[d] = counted[d]
    BY <2>1, <2>3
  <2> QED
    BY <2>1, <2>2, <2>4 DEF Counting
<1>2. ASSUME NEW c \in Conns, LoseSocket(c)
      PROVE  Counting'
  BY <1>2 DEF LoseSocket, Reading, Counting
<1>3. ASSUME NEW c \in Conns, ReadEnd(c)
      PROVE  Counting'
  <2>1. c \in closed /\ started' = started /\ closed' = closed
    BY <1>3 DEF ReadEnd
  <2>2. CASE counted[c] = 0
    BY <1>3, <2>1, <2>2 DEF ReadEnd, Counting
  <2>3. CASE counted[c] # 0
    <3>1. counted' = [counted EXCEPT ![c] = @ - 1] /\ done' = done \cup {c}
      BY <1>3, <2>3 DEF ReadEnd
    <3>2. counted[c] = 1
      BY <2>3 DEF Counting
    <3>3. counted \in [Conns -> 0..1]
      BY DEF ClientTypes
    <3>4. counted'[c] = 0 /\ \A d \in Conns : d # c => counted'[d] = counted[d]
      BY <3>1, <3>2, <3>3
    <3> QED
      BY <2>1, <3>1, <3>4 DEF Counting
  <2> QED
    BY <2>2, <2>3
<1>4. ASSUME UNCHANGED <<started, counted, closed, done>>
      PROVE  Counting'
  BY <1>4 DEF Counting
<1>5. ASSUME NEW c \in Conns,
             ReadSocket(c) \/ WriteSocket(c) \/ ReadMessage(c) \/ OwnerConsume(c)
      PROVE  UNCHANGED <<started, counted, closed, done>>
  BY <1>5 DEF ReadSocket, WriteSocket, ReadMessage, OwnerConsume
<1>6. ASSUME \/ ReadJoin \/ Expose \/ SendTake \/ SendOne \/ OwnerPost \/ OwnerRead
             \/ UNCHANGED vars
      PROVE  UNCHANGED <<started, counted, closed, done>>
  BY <1>6 DEF ReadJoin, Expose, SendTake, SendOne, OwnerPost, OwnerRead, vars, web
<1> QED
  BY <1>1, <1>2, <1>3, <1>4, <1>5, <1>6 DEF Next

LEMMA AppendMember ==
    ASSUME members \in Seq(Conns), IsInjective(members),
           NEW c \in Conns, c \notin Range(members)
    PROVE  /\ IsInjective(Append(members, c))
           /\ Range(Append(members, c)) = Range(members) \cup {c}
           /\ Append(members, c) # <<>>
<1> DEFINE t == Append(members, c)
           n == Len(members)
<1>1. /\ n \in Nat /\ DOMAIN members = 1..n /\ DOMAIN t = 1..(n + 1)
      /\ \A i \in 1..n : t[i] = members[i]
      /\ t[n + 1] = c /\ t # <<>>
  OBVIOUS
<1> HIDE DEF t, n
<1>2. \A i \in 1..n : members[i] # c
  BY <1>1 DEF Range
<1>3. IsInjective(t)
  BY <1>1, <1>2 DEF IsInjective
<1>4. Range(t) = Range(members) \cup {c}
  BY <1>1 DEF Range
<1> QED
  BY <1>1, <1>3, <1>4 DEF t

\* What a connection's end does to the list of connections.
LEMMA EndedMember ==
    ASSUME ClientTypes, Membership, NEW c \in Conns, ReadEnd(c), counted[c] # 0
    PROVE  /\ done' = done \cup {c}
           /\ IsInjective(members')
           /\ Range(members') = Range(members) \ {c}
           /\ c \in Range(members)
           /\ cfrom[c] = <<>>
           /\ open' = (members' # <<>>)
           /\ UNCHANGED <<closed, cto, heard, to, current, rest, posted, joining, cfrom>>
<1>1. c \in Range(members) /\ members' = RemoveFirst(members, c)
  BY DEF ReadEnd
<1>2. members \in Seq(Conns) /\ IsInjective(members)
  BY DEF ClientTypes, Membership
<1>3. IsInjective(members') /\ Range(members') = Range(members) \ {c}
  BY <1>1, <1>2, RemovedFirst
<1> QED
  BY <1>1, <1>3 DEF ReadEnd, Drained, sender, owner

\* What joining does to it.
LEMMA JoinedMember ==
    ASSUME ClientTypes, Membership, ReadJoin
    PROVE  /\ joining \in Conns /\ joining' = None
           /\ joining \notin Range(members)
           /\ IsInjective(members')
           /\ Range(members') = Range(members) \cup {joining}
           /\ members' # <<>> /\ open' = TRUE
           /\ UNCHANGED <<done, closed, cto, heard, to, current, rest, posted, cfrom>>
<1>1. joining \in Conns /\ joining \notin Range(members) /\ members' = Append(members, joining)
  BY DEF ReadJoin, ClientTypes, Membership
<1>2. members \in Seq(Conns) /\ IsInjective(members)
  BY DEF ClientTypes, Membership
<1> QED
  BY <1>1, <1>2, AppendMember DEF ReadJoin, web, sender

LEMMA MemberTypes ==
    ASSUME ClientTypes
    PROVE  Range(members) \subseteq Conns
BY DEF ClientTypes, Range

LEMMA MembershipStep ==
    ASSUME ClientTypes, Counting, Membership, [Next]_vars
    PROVE  Membership'
<1>1. ASSUME NEW c \in Conns, ReadSocket(c)
      PROVE  Membership'
  <2>1. c \notin done
    BY <1>1 DEF ReadSocket, Reading, Counting
  <2>2. \A d \in done : cfrom'[d] = cfrom[d]
    BY <1>1, <2>1 DEF ReadSocket, ClientTypes
  <2>3. UNCHANGED <<members, done, joining, open>>
    BY <1>1 DEF ReadSocket, reader, owner
  <2> QED
    BY <2>2, <2>3 DEF Membership
<1>2. ASSUME NEW c \in Conns, ReadMessage(c)
      PROVE  Membership'
  <2>1. c \notin done
    BY <1>2 DEF ReadMessage, Membership
  <2>2. \A d \in done : cfrom'[d] = cfrom[d]
    BY <1>2, <2>1 DEF ReadMessage, ClientTypes
  <2>3. UNCHANGED <<members, done, joining, open>>
    BY <1>2 DEF ReadMessage, owner
  <2> QED
    BY <2>2, <2>3 DEF Membership
<1>3. ASSUME NEW c \in Conns, ReadEnd(c)
      PROVE  Membership'
  <2>1. CASE counted[c] = 0
    BY <1>3, <2>1 DEF ReadEnd, Membership, owner
  <2>2. CASE counted[c] # 0
    BY <1>3, <2>2, EndedMember DEF Membership
  <2> QED
    BY <2>1, <2>2
<1>4. ASSUME ReadJoin
      PROVE  Membership'
  <2>1. None \notin Range(members') \cup done'
    BY <1>4, JoinedMember, MemberTypes, ClientAssumption DEF ClientTypes
  <2> QED
    BY <1>4, <2>1, JoinedMember DEF Membership
<1>5. ASSUME NEW c \in Conns, OwnerConsume(c)
      PROVE  Membership'
  BY <1>5 DEF OwnerConsume, Fresh, Membership, reader
<1>6. ASSUME UNCHANGED <<members, done, joining, open, cfrom>>
      PROVE  Membership'
  BY <1>6 DEF Membership
<1>7. ASSUME NEW c \in Conns, Run(c) \/ LoseSocket(c) \/ WriteSocket(c)
      PROVE  UNCHANGED <<members, done, joining, open, cfrom>>
  BY <1>7 DEF Run, LoseSocket, WriteSocket, reader, owner
<1>8. ASSUME \/ Expose \/ SendTake \/ SendOne \/ OwnerPost \/ OwnerRead
             \/ UNCHANGED vars
      PROVE  UNCHANGED <<members, done, joining, open, cfrom>>
  BY <1>8 DEF Expose, SendTake, SendOne, OwnerPost, OwnerRead, vars, web, reader, owner
<1> QED
  BY <1>1, <1>2, <1>3, <1>4, <1>5, <1>6, <1>7, <1>8 DEF Next

-----------------------------------------------------------------------------
(* Posts on their way.                                                     *)

\* The first of the connections still to be sent to is taken off.
LEMMA RestTail ==
    ASSUME rest \in Seq(Conns), IsInjective(rest), rest # <<>>
    PROVE  /\ Head(rest) \in Conns /\ Head(rest) \in Range(rest)
           /\ IsInjective(Tail(rest))
           /\ Range(Tail(rest)) = Range(rest) \ {Head(rest)}
<1> DEFINE t == Tail(rest)
           n == Len(rest)
<1>1. /\ n \in Nat \ {0} /\ DOMAIN rest = 1..n /\ DOMAIN t = 1..(n - 1)
      /\ \A i \in 1..(n - 1) : t[i] = rest[i + 1]
      /\ Head(rest) = rest[1] /\ rest[1] \in Conns
  OBVIOUS
<1> HIDE DEF t, n
<1>2. IsInjective(t)
  BY <1>1 DEF IsInjective
<1>3. Range(t) \subseteq Range(rest) \ {rest[1]}
  BY <1>1 DEF Range, IsInjective
<1>4. ASSUME NEW i \in DOMAIN rest, rest[i] # rest[1]
      PROVE  rest[i] \in Range(t)
  <2>1. i - 1 \in DOMAIN t /\ t[i - 1] = rest[i]
    BY <1>1, <1>4
  <2> QED
    BY <2>1 DEF Range
<1>5. rest[1] \in Range(rest)
  BY <1>1 DEF Range
<1> QED
  BY <1>1, <1>2, <1>3, <1>4, <1>5 DEF t, Range

\* What the sender takes.
LEMMA Took ==
    ASSUME ClientTypes, Posting, SendTake
    PROVE  /\ rest = <<>> /\ rest' = members /\ posted' = posted
           /\ Taken' = Taken + 1 /\ Taken \in Nat
           /\ current' = Taken'
           /\ \A i \in DOMAIN to' : to'[i] = Taken' + i
           /\ UNCHANGED <<web, reader, owner, panicked>>
<1>1. to \in Seq(1..MaxPosts) /\ to # <<>> /\ posted \in Nat /\ Taken \in Nat
  BY DEF SendTake, ClientTypes, Posting
<1>2. /\ rest = <<>> /\ rest' = members /\ posted' = posted
      /\ to' = Tail(to) /\ current' = Head(to)
      /\ UNCHANGED <<web, reader, owner, panicked>>
  BY DEF SendTake, Recipients, owner
<1>3. /\ Len(to) \in Nat \ {0} /\ Len(to') = Len(to) - 1
      /\ DOMAIN to = 1..Len(to) /\ DOMAIN to' = 1..(Len(to) - 1)
      /\ \A i \in DOMAIN to' : i + 1 \in DOMAIN to /\ to'[i] = to[i + 1]
      /\ Head(to) = to[1] /\ 1 \in DOMAIN to
  BY <1>1, <1>2
<1>4. Taken' = Taken + 1
  BY <1>1, <1>2, <1>3 DEF Taken
<1>5. \A i \in DOMAIN to : to[i] = Taken + i
  BY DEF Posting
<1>6. current' = Taken'
  BY <1>2, <1>3, <1>4, <1>5
<1>7. ASSUME NEW i \in DOMAIN to'
      PROVE  to'[i] = Taken' + i
  BY <1>1, <1>3, <1>4, <1>5
<1> QED
  BY <1>1, <1>2, <1>4, <1>6, <1>7

\* What the owner posts.
LEMMA Posted ==
    ASSUME ClientTypes, Posting, OwnerPost
    PROVE  /\ joining = None /\ joining' = None
           /\ posted' = posted + 1 /\ posted \in Nat
           /\ to' = Append(to, posted + 1)
           /\ Taken' = Taken /\ Taken \in Nat
           /\ \A i \in DOMAIN to' : to'[i] = Taken + i
           /\ UNCHANGED <<web, reader, current, rest, panicked>>
<1>1. to \in Seq(1..MaxPosts) /\ posted \in Nat /\ Taken \in Nat
  BY DEF ClientTypes, Posting
<1>2. /\ joining = None /\ joining' = None /\ posted' = posted + 1
      /\ to' = Append(to, posted + 1)
      /\ UNCHANGED <<web, reader, current, rest, panicked>>
  BY DEF OwnerPost, OwnerFree
<1>3. /\ Len(to) \in Nat /\ Len(to') = Len(to) + 1
      /\ DOMAIN to = 1..Len(to) /\ DOMAIN to' = 1..(Len(to) + 1)
      /\ \A i \in DOMAIN to : to'[i] = to[i]
      /\ to'[Len(to) + 1] = posted + 1
  BY <1>1, <1>2
<1>4. Taken' = Taken
  BY <1>1, <1>2, <1>3 DEF Taken
<1>5. ASSUME NEW i \in DOMAIN to'
      PROVE  to'[i] = Taken + i
  <2>1. CASE i = Len(to) + 1
    BY <1>1, <1>3, <2>1 DEF Taken
  <2>2. CASE i \in DOMAIN to
    BY <1>3, <2>2 DEF Posting
  <2> QED
    BY <1>3, <2>1, <2>2
<1> QED
  BY <1>1, <1>2, <1>4, <1>5

LEMMA PostingStep ==
    ASSUME ClientTypes, Membership, Posting, [Next]_vars
    PROVE  Posting'
<1>1. ASSUME ReadJoin
      PROVE  Posting'
  <2>1. UNCHANGED <<to, posted, current, rest, done>> /\ Range(members) \subseteq Range(members')
    BY <1>1, JoinedMember
  <2> QED
    BY <2>1 DEF Posting, Taken
<1>2. ASSUME NEW c \in Conns, ReadEnd(c)
      PROVE  Posting'
  <2>1. UNCHANGED <<to, posted, current, rest>>
    BY <1>2 DEF ReadEnd, sender, owner
  <2>2. Range(members) \cup done \subseteq Range(members') \cup done'
    <3>1. CASE counted[c] = 0
      BY <1>2, <3>1 DEF ReadEnd
    <3>2. CASE counted[c] # 0
      BY <1>2, <3>2, EndedMember
    <3> QED
      BY <3>1, <3>2
  <2> QED
    BY <2>1, <2>2 DEF Posting, Taken
<1>3. ASSUME SendTake
      PROVE  Posting'
  <2>1. IsInjective(rest') /\ Range(rest') \subseteq Range(members') \cup done'
    BY <1>3, Took DEF Membership, reader
  <2> QED
    BY <1>3, <2>1, Took DEF Posting
<1>4. ASSUME SendOne
      PROVE  Posting'
  <2>1. UNCHANGED <<to, posted, current, members, done>> /\ rest # <<>>
    BY <1>4 DEF SendOne, reader, owner
  <2>2. rest' = rest \/ rest' = Tail(rest)
    BY <1>4 DEF SendOne
  <2>3. IsInjective(rest') /\ Range(rest') \subseteq Range(rest)
    BY <2>1, <2>2, RestTail DEF Posting, ClientTypes
  <2> QED
    BY <2>1, <2>3 DEF Posting, Taken
<1>5. ASSUME OwnerPost
      PROVE  Posting'
  <2>1. UNCHANGED <<current, rest, members, done>>
    BY <1>5, Posted DEF reader, web
  <2> QED
    BY <1>5, <2>1, Posted DEF Posting
<1>6. ASSUME UNCHANGED <<to, posted, current, rest, members, done>>
      PROVE  Posting'
  BY <1>6 DEF Posting, Taken
<1>7. ASSUME NEW c \in Conns,
             \/ Run(c) \/ ReadSocket(c) \/ LoseSocket(c) \/ WriteSocket(c)
             \/ ReadMessage(c) \/ OwnerConsume(c)
      PROVE  UNCHANGED <<to, posted, current, rest, members, done>>
  BY <1>7 DEF Run, ReadSocket, LoseSocket, WriteSocket, ReadMessage, OwnerConsume,
              reader, sender, owner
<1>8. ASSUME Expose \/ OwnerRead \/ UNCHANGED vars
      PROVE  UNCHANGED <<to, posted, current, rest, members, done>>
  BY <1>8 DEF Expose, OwnerRead, vars, web, reader, sender, owner
<1> QED
  BY <1>1, <1>2, <1>3, <1>4, <1>5, <1>6, <1>7, <1>8 DEF Next

-----------------------------------------------------------------------------
(* Connections being handed over.                                          *)

\* A message is put into the channel of c.
LEMMA Sending ==
    ASSUME ClientTypes, NEW c \in Conns, NEW m \in Packets,
           cto' = [cto EXCEPT ![c] = Append(@, m)]
    PROVE  /\ cto'[c] = Append(cto[c], m)
           /\ \A d \in Conns : d # c => cto'[d] = cto[d]
           /\ \A i \in DOMAIN cto'[c] :
                 \/ i \in DOMAIN cto[c] /\ cto'[c][i] = cto[c][i]
                 \/ i = Len(cto[c]) + 1 /\ cto'[c][i] = m
<1>1. cto[c] \in Seq(Packets)
  BY DEF ClientTypes
<1>2. /\ cto'[c] = Append(cto[c], m)
      /\ \A d \in Conns : d # c => cto'[d] = cto[d]
  BY DEF ClientTypes
<1> QED
  BY <1>1, <1>2

LEMMA HandingStep ==
    ASSUME ClientTypes, Membership, Posting, Handing, [Next]_vars
    PROVE  Handing'
<1>1. ASSUME NEW c \in Conns, WriteSocket(c)
      PROVE  Handing'
  <2>1. /\ cto[c] \in Seq(Packets) /\ cto[c] # <<>>
        /\ cto' = [cto EXCEPT ![c] = Tail(@)]
        /\ UNCHANGED <<members, done, joining, posted>>
    BY <1>1 DEF WriteSocket, ClientTypes, reader, owner
  <2>2. /\ cto'[c] = Tail(cto[c])
        /\ \A d \in Conns : d # c => cto'[d] = cto[d] /\ heard'[d] = heard[d]
    BY <1>1, <2>1 DEF WriteSocket, ClientTypes
  <2>3. ASSUME NEW d \in Conns \ (Range(members) \cup done \cup {joining})
        PROVE  cto'[d] = <<>> /\ heard'[d] = <<>>
    BY <2>1, <2>2 DEF Handing
  <2>4. ASSUME NEW d \in Conns, NEW i \in DOMAIN cto'[d], i > 1
        PROVE  cto'[d][i].kind = "News"
    <3>1. CASE d = c
      <4>1. \A j \in DOMAIN Tail(cto[c]) :
               j + 1 \in DOMAIN cto[c] /\ Tail(cto[c])[j] = cto[c][j + 1] /\ (j > 1 => j + 1 > 1)
        BY <2>1
      <4>2. i + 1 \in DOMAIN cto[c] /\ cto'[c][i] = cto[c][i + 1] /\ i + 1 > 1
        BY <2>2, <2>4, <3>1, <4>1
      <4> QED
        BY <3>1, <4>2 DEF Handing
    <3>2. CASE d # c
      BY <2>2, <2>4, <3>2 DEF Handing
    <3> QED
      BY <3>1, <3>2
  <2>5. ASSUME joining # None
        PROVE  cto'[joining] \in {<<>>, <<Snapshot(posted)>>}
    <3>1. cto[joining] \in {<<>>, <<Snapshot(posted)>>} /\ joining \in Conns
      BY <2>5 DEF Handing, ClientTypes
    <3>2. CASE joining = c
      <4>1. cto[c] = <<Snapshot(posted)>>
        BY <2>1, <3>1, <3>2
      <4> QED
        BY <2>2, <3>2, <4>1
    <3>3. CASE joining # c
      BY <2>2, <3>1, <3>3
    <3> QED
      BY <3>2, <3>3
  <2> QED
    BY <2>1, <2>3, <2>4, <2>5 DEF Handing, Snapshot
<1>2. ASSUME ReadJoin
      PROVE  Handing'
  <2>1. UNCHANGED <<cto, heard, posted>> /\ joining' = None
    BY <1>2, JoinedMember
  <2>2. Range(members) \cup done \cup {joining} \subseteq Range(members') \cup done'
    BY <1>2, JoinedMember
  <2> QED
    BY <2>1, <2>2 DEF Handing
<1>3. ASSUME NEW c \in Conns, ReadEnd(c)
      PROVE  Handing'
  <2>1. UNCHANGED <<cto, heard, posted, joining>>
    BY <1>3 DEF ReadEnd, owner
  <2>2. Range(members) \cup done \subseteq Range(members') \cup done'
    <3>1. CASE counted[c] = 0
      BY <1>3, <3>1 DEF ReadEnd
    <3>2. CASE counted[c] # 0
      BY <1>3, <3>2, EndedMember
    <3> QED
      BY <3>1, <3>2
  <2> QED
    BY <2>1, <2>2 DEF Handing, Snapshot
<1>4. ASSUME SendOne
      PROVE  Handing'
  <2> DEFINE c == Head(rest)
  <2>1. UNCHANGED <<heard, posted, joining, members, done>> /\ rest # <<>>
    BY <1>4 DEF SendOne, reader, owner
  <2>2. c \in Conns /\ c \in Range(members) \cup done
    BY <2>1, RestTail DEF Posting, ClientTypes
  <2>3. CASE c \in done
    <3>1. cto' = cto
      BY <1>4, <2>3 DEF SendOne
    <3> QED
      BY <2>1, <3>1 DEF Handing, Snapshot
  <2>4. CASE c \notin done
    <3>1. cto' = [cto EXCEPT ![c] = Append(@, News(current))]
      BY <1>4, <2>4 DEF SendOne
    <3>2. current \in 0..MaxPosts
      BY <2>1, ClientAssumption DEF Posting, ClientTypes, Taken
    <3>3. News(current) \in Packets /\ News(current).kind = "News"
      BY <3>2, PacketType
    <3> HIDE DEF c
    <3>4. /\ \A d \in Conns : d # c => cto'[d] = cto[d]
          /\ \A i \in DOMAIN cto'[c] :
                \/ i \in DOMAIN cto[c] /\ cto'[c][i] = cto[c][i]
                \/ i = Len(cto[c]) + 1 /\ cto'[c][i] = News(current)
      BY <2>2, <3>1, <3>3, Sending
    <3>5. ASSUME NEW d \in Conns, NEW i \in DOMAIN cto'[d], i > 1
          PROVE  cto'[d][i].kind = "News"
      BY <3>3, <3>4, <3>5 DEF Handing
    <3>6. joining # c
      BY <2>2 DEF Membership
    <3>7. joining # None => cto'[joining] = cto[joining]
      BY <3>4, <3>6 DEF ClientTypes
    <3> QED
      BY <2>1, <2>2, <3>4, <3>5, <3>7 DEF Handing, Snapshot
  <2> QED
    BY <2>3, <2>4
<1>5. ASSUME OwnerPost
      PROVE  Handing'
  BY <1>5, Posted DEF Handing, web, reader
<1>6. ASSUME NEW c \in Conns, OwnerConsume(c)
      PROVE  Handing'
  <2>1. /\ joining = None /\ joining' = c
        /\ c \notin Range(members) /\ c \notin done
        /\ UNCHANGED <<heard, posted, members, done>>
        /\ cto' = [cto EXCEPT ![c] = Append(@, Snapshot(posted))]
    BY <1>6 DEF OwnerConsume, OwnerFree, Fresh, Newest, reader
  <2>2. cto[c] = <<>>
    BY <2>1, ClientAssumption DEF Handing
  <2>3. cto'[c] = <<Snapshot(posted)>> /\ \A d \in Conns : d # c => cto'[d] = cto[d]
    BY <2>1, <2>2 DEF ClientTypes
  <2>4. ASSUME NEW d \in Conns, NEW i \in DOMAIN cto'[d], i > 1
        PROVE  cto'[d][i].kind = "News"
    <3>1. d # c
      BY <2>3, <2>4
    <3> QED
      BY <2>3, <2>4, <3>1 DEF Handing
  <2>5. ASSUME NEW d \in Conns \ (Range(members) \cup done \cup {c})
        PROVE  cto'[d] = <<>> /\ heard'[d] = <<>>
    <3>1. d \notin Range(members) \cup done \cup {joining}
      BY <2>1, ClientAssumption
    <3> QED
      BY <2>1, <2>3, <3>1 DEF Handing
  <2> QED
    BY <2>1, <2>3, <2>4, <2>5 DEF Handing, Snapshot
<1>7. ASSUME UNCHANGED <<cto, heard, posted, joining, members, done>>
      PROVE  Handing'
  BY <1>7 DEF Handing, Snapshot
<1>8. ASSUME NEW c \in Conns,
             Run(c) \/ ReadSocket(c) \/ LoseSocket(c) \/ ReadMessage(c)
      PROVE  UNCHANGED <<cto, heard, posted, joining, members, done>>
  BY <1>8 DEF Run, ReadSocket, LoseSocket, ReadMessage, reader, owner
<1>9. ASSUME Expose \/ SendTake \/ OwnerRead \/ UNCHANGED vars
      PROVE  UNCHANGED <<cto, heard, posted, joining, members, done>>
  BY <1>9 DEF Expose, SendTake, OwnerRead, vars, web, reader, owner
<1> QED
  BY <1>1, <1>2, <1>3, <1>4, <1>5, <1>6, <1>7, <1>8, <1>9 DEF Next

-----------------------------------------------------------------------------
(* What a connection hears.                                                *)

LEMMA GapFreeGrows ==
    ASSUME NEW s \in Seq(Packets), NEW k \in Nat, NEW p \in Nat,
           News(k) \in Packets, GapFree(s, k, p)
    PROVE  GapFree(Append(s, News(k)), k + 1, p)
<1> DEFINE t == Append(s, News(k))
<1>1. /\ Len(s) \in Nat \ {0} /\ Len(t) = Len(s) + 1 /\ t # <<>>
      /\ \A i \in 1..Len(s) : t[i] = s[i]
      /\ t[Len(s) + 1] = News(k)
  BY DEF GapFree
<1> HIDE DEF t
<1>2. t[1] = s[1] /\ (k + 1) - Len(t) = k - Len(s)
  BY <1>1
<1>3. ASSUME NEW i \in 2..Len(t)
      PROVE  t[i] = News((k + 1) - Len(t) + i - 1)
  <2>1. CASE i = Len(s) + 1
    <3>1. (k + 1) - Len(t) + i - 1 = k
      BY <1>1, <2>1
    <3> QED
      BY <1>1, <2>1, <3>1
  <2>2. CASE i \in 2..Len(s)
    <3>1. (k + 1) - Len(t) + i - 1 = k - Len(s) + i - 1
      BY <1>2, <2>2
    <3>2. i \in 1..Len(s)
      BY <1>1, <2>2
    <3> QED
      BY <1>1, <2>2, <3>1, <3>2 DEF GapFree
  <2> QED
    BY <1>1, <2>1, <2>2
<1>4. GapFree(t, k + 1, p)
  BY <1>1, <1>2, <1>3 DEF GapFree
<1> QED
  BY <1>4 DEF t

\* A snapshot may be replaced by a newer one.
LEMMA GapFreeRefreshed ==
    ASSUME NEW s \in Seq(Packets), NEW t \in Seq(Packets), NEW k \in Nat, NEW p \in Nat,
           GapFree(s, k, p), Len(t) = Len(s),
           NEW n \in Nat, s[1].n <= n, n <= p, t[1] = Snapshot(n),
           \A i \in 2..Len(s) : t[i] = s[i]
    PROVE  GapFree(t, k, p)
<1>1. Len(s) \in Nat \ {0} /\ s[1].n \in Nat
  <2>1. Len(s) \in Nat \ {0} /\ s[1] \in Packets
    BY DEF GapFree
  <2> QED
    BY <2>1, ClientAssumption DEF Packets
<1>2. t[1].kind = "Full" /\ t[1].n = n /\ t # <<>>
  BY <1>1 DEF Snapshot
<1>3. k - Len(s) <= n
  BY <1>1 DEF GapFree
<1> QED
  BY <1>2, <1>3 DEF GapFree

LEMMA GapFreeSnapshot ==
    ASSUME NEW n \in Nat, NEW p \in Nat, n <= p, NEW k \in Nat, k <= n + 1
    PROVE  GapFree(<<Snapshot(n)>>, k, p)
<1>1. /\ <<Snapshot(n)>>[1].kind = "Full" /\ <<Snapshot(n)>>[1].n = n
      /\ Len(<<Snapshot(n)>>) = 1 /\ <<Snapshot(n)>> # <<>>
  BY DEF Snapshot
<1> QED
  BY <1>1 DEF GapFree

LEMMA StreamTypes ==
    ASSUME ClientTypes, Posting, NEW c \in Conns
    PROVE  /\ heard[c] \in Seq(Packets) /\ cto[c] \in Seq(Packets)
           /\ Stream(c) \in Seq(Packets)
           /\ Coming(c) \in Nat /\ Taken \in Nat /\ posted \in Nat /\ Taken <= posted
<1>1. heard[c] \in Seq(Packets) /\ cto[c] \in Seq(Packets) /\ to \in Seq(1..MaxPosts)
  BY DEF ClientTypes
<1>2. Stream(c) \in Seq(Packets)
  BY <1>1, ConcatProperties DEF Stream
<1>3. Taken \in Nat /\ posted \in Nat /\ Len(to) \in Nat
  BY <1>1 DEF ClientTypes, Posting
<1>4. Taken <= posted
  BY <1>3 DEF Taken
<1> QED
  BY <1>1, <1>2, <1>3, <1>4 DEF Coming

\* A message of c is written to its socket.
LEMMA WrittenGapless ==
    ASSUME ClientTypes, Posting, NEW c \in Conns, WriteSocket(c), c \notin closed, Gapless(c)
    PROVE  Gapless(c)'
<1> DEFINE s == Stream(c)
           m == Head(cto[c])
<1>1. /\ cto' = [cto EXCEPT ![c] = Tail(@)] /\ cto[c] # <<>>
      /\ posted' = posted /\ Coming(c)' = Coming(c)
  BY DEF WriteSocket, sender, owner, Coming, Taken
<1>2. /\ heard[c] \in Seq(Packets) /\ cto[c] \in Seq(Packets) /\ s \in Seq(Packets)
      /\ Coming(c) \in Nat /\ posted \in Nat
  BY StreamTypes
<1>3. cto'[c] = Tail(cto[c])
  BY <1>1 DEF ClientTypes
<1>4. m = s[Len(heard[c]) + 1] /\ Len(heard[c]) \in Nat /\ Len(heard[c]) + 1 \in 1..Len(s)
  <2>1. /\ Len(s) = Len(heard[c]) + Len(cto[c])
        /\ \A i \in 1 .. Len(heard[c]) + Len(cto[c]) :
              s[i] = IF i <= Len(heard[c]) THEN heard[c][i] ELSE cto[c][i - Len(heard[c])]
    BY <1>2, ConcatProperties DEF Stream
  <2>2. Len(cto[c]) \in Nat \ {0} /\ Len(heard[c]) \in Nat /\ m = cto[c][1]
    BY <1>1, <1>2
  <2> DEFINE a == Len(heard[c])
             b == Len(cto[c])
  <2>3. /\ a \in Nat /\ b \in Nat \ {0} /\ m = cto[c][1] /\ Len(s) = a + b
        /\ \A i \in 1 .. a + b : s[i] = IF i <= a THEN heard[c][i] ELSE cto[c][i - a]
    BY <2>1, <2>2
  <2> HIDE DEF s, m, a, b
  <2>4. a + 1 \in 1 .. a + b /\ ~ (a + 1 <= a) /\ (a + 1) - a = 1
    BY <2>3
  <2>5. s[a + 1] = cto[c][1]
    BY <2>3, <2>4
  <2> QED
    BY <2>3, <2>4, <2>5 DEF a
<1>5. CASE m.kind # "Full"
  <2>1. heard' = [heard EXCEPT ![c] = Append(@, m)]
    BY <1>5 DEF WriteSocket
  <2>2. heard'[c] = Append(heard[c], m)
    BY <2>1 DEF ClientTypes
  <2>3. Stream(c)' = s
    BY <1>1, <1>2, <1>3, <2>2, StreamMoves DEF Stream
  <2> QED
    BY <1>1, <2>3 DEF Gapless
<1>6. CASE m.kind = "Full"
  <2>1. PICK n \in m.n .. posted : heard' = [heard EXCEPT ![c] = Append(@, Snapshot(n))]
    BY <1>6 DEF WriteSocket
  <2>2. heard[c] = <<>>
    <3>1. SUFFICES ASSUME Len(heard[c]) # 0
                   PROVE  FALSE
      BY <1>2
    <3>2. Len(heard[c]) + 1 \in 2..Len(s)
      BY <1>4, <3>1
    <3>3. \A i \in 2..Len(s) : s[i].kind = "News"
      <4>1. \A x : News(x).kind = "News"
        BY DEF News
      <4> QED
        BY <4>1 DEF Gapless, GapFree
    <3> HIDE DEF s, m
    <3>4. m.kind = "News"
      BY <1>4, <3>2, <3>3
    <3> QED
      BY <1>6, <3>4
  <2>3. s = cto[c] /\ s[1] = m
    BY <1>2, <1>4, <2>2, ConcatEmptySeq DEF Stream
  <2>4. m.n \in Nat /\ n \in Nat /\ m.n <= n /\ n <= posted /\ n \in 0..MaxPosts
    <3>1. m \in Packets
      BY <1>1, <1>2
    <3>2. m.n \in 0..MaxPosts /\ posted \in 0..MaxPosts
      BY <3>1 DEF Packets, ClientTypes
    <3> QED
      BY <2>1, <3>2, ClientAssumption
  <2>5. heard'[c] = <<Snapshot(n)>>
    BY <2>1, <2>2 DEF ClientTypes
  <2> DEFINE t == <<Snapshot(n)>> \o Tail(cto[c])
  <2>6. Stream(c)' = t
    BY <1>3, <2>5 DEF Stream
  <2>7. <<Snapshot(n)>> \in Seq(Packets) /\ Tail(cto[c]) \in Seq(Packets)
    BY <1>1, <1>2, <2>4, PacketType
  <2>8. /\ t \in Seq(Packets) /\ Len(t) = Len(s) /\ t[1] = Snapshot(n)
        /\ \A i \in 2..Len(s) : t[i] = s[i]
    <3> HIDE DEF s, m
    <3> DEFINE x == Snapshot(n)
               q == cto[c]
    <3>1. q \in Seq(Packets) /\ q # <<>> /\ x \in Packets
      BY <1>1, <1>2, <2>4, PacketType
    <3> HIDE DEF x, q
    <3>2. /\ <<x>> \o Tail(q) \in Seq(Packets) /\ Len(<<x>> \o Tail(q)) = Len(q)
          /\ (<<x>> \o Tail(q))[1] = x
          /\ \A i \in 2..Len(q) : (<<x>> \o Tail(q))[i] = q[i]
      BY <3>1
    <3> QED
      BY <2>3, <3>2 DEF x, q
  <2>9. GapFree(t, Coming(c), posted)
    <3>1. s[1].n <= n /\ GapFree(s, Coming(c), posted)
      BY <2>3, <2>4 DEF Gapless
    <3> HIDE DEF s, m, t
    <3> QED
      BY <1>2, <2>4, <2>8, <3>1, GapFreeRefreshed
  <2> QED
    BY <1>1, <2>6, <2>9 DEF Gapless
<1> QED
  BY <1>5, <1>6

\* The snapshot of the connection that is being handed over is written.
LEMMA WrittenSnapshot ==
    ASSUME ClientTypes, Posting, NEW c \in Conns, WriteSocket(c), c \notin closed,
           Stream(c) = <<Snapshot(posted)>>
    PROVE  Stream(c)' = <<Snapshot(posted)>>
<1>1. /\ cto' = [cto EXCEPT ![c] = Tail(@)] /\ cto[c] # <<>>
  BY DEF WriteSocket
<1>2. heard[c] \in Seq(Packets) /\ cto[c] \in Seq(Packets) /\ posted \in Nat
  BY StreamTypes
<1>3. heard[c] = <<>>
  <2>1. Len(heard[c] \o cto[c]) = Len(heard[c]) + Len(cto[c])
    BY <1>2, ConcatProperties
  <2>2. Len(heard[c] \o cto[c]) = 1
    BY DEF Stream
  <2>3. Len(heard[c]) \in Nat /\ Len(cto[c]) \in Nat \ {0}
    BY <1>1, <1>2
  <2> DEFINE a == Len(heard[c])
             b == Len(cto[c])
  <2>4. a \in Nat /\ b \in Nat \ {0} /\ a + b = 1
    BY <2>1, <2>2, <2>3
  <2> HIDE DEF a, b
  <2>5. a = 0
    BY <2>4
  <2> QED
    BY <1>2, <2>5 DEF a
<1>4. cto[c] = <<Snapshot(posted)>>
  BY <1>2, <1>3, ConcatEmptySeq DEF Stream
<1>5. Head(cto[c]) = Snapshot(posted) /\ Snapshot(posted).kind = "Full" /\ Snapshot(posted).n = posted
  BY <1>4 DEF Snapshot
<1>6. PICK n \in posted .. posted : heard' = [heard EXCEPT ![c] = Append(@, Snapshot(n))]
  BY <1>5 DEF WriteSocket
<1>7. n = posted
  BY <1>2
<1>8. heard'[c] = <<Snapshot(posted)>>
  BY <1>3, <1>6, <1>7 DEF ClientTypes
<1>9. cto'[c] = <<>>
  BY <1>1, <1>4 DEF ClientTypes
<1> QED
  BY <1>8, <1>9 DEF Stream


LEMMA ListeningStep ==
    ASSUME ClientTypes, Counting, Membership, Posting, Handing, Listening, [Next]_vars
    PROVE  Listening'
<1> USE StreamTypes, MemberTypes
<1>1. ASSUME NEW c \in Conns, WriteSocket(c)
      PROVE  Listening'
  <2>1. UNCHANGED <<closed, members, joining, posted, rest, to>>
    BY <1>1 DEF WriteSocket, reader, sender, owner
  <2>2. \A d \in Conns : d # c => Stream(d)' = Stream(d) /\ (Gapless(d) => Gapless(d)')
    <3>1. \A d \in Conns : d # c => cto'[d] = cto[d] /\ heard'[d] = heard[d]
      BY <1>1 DEF WriteSocket, ClientTypes
    <3> QED
      BY <2>1, <3>1 DEF Gapless, Stream, Coming, Taken
  <2>3. ASSUME NEW d \in Range(members) \ closed
        PROVE  Gapless(d)'
    <3>1. Gapless(d) /\ d \in Conns
      BY DEF Listening
    <3>2. CASE d = c
      BY <1>1, <3>1, <3>2, WrittenGapless
    <3>3. CASE d # c
      BY <2>2, <3>1, <3>3
    <3> QED
      BY <3>2, <3>3
  <2>4. ASSUME joining \notin closed \cup {None}
        PROVE  Stream(joining)' = <<Snapshot(posted)>>
    <3>1. Stream(joining) = <<Snapshot(posted)>> /\ joining \in Conns /\ joining \notin closed
      BY <2>4 DEF Listening, ClientTypes
    <3>2. CASE joining = c
      <4>1. Stream(c)' = <<Snapshot(posted)>>
        BY <1>1, <3>1, <3>2, WrittenSnapshot
      <4> QED
        BY <2>1, <3>2, <4>1 DEF Stream
    <3>3. CASE joining # c
      BY <2>1, <2>2, <3>1, <3>3 DEF Stream
    <3> QED
      BY <3>2, <3>3
  <2> QED
    BY <2>1, <2>3, <2>4 DEF Listening, Snapshot, Stream
<1>2. ASSUME NEW c \in Conns, LoseSocket(c)
      PROVE  Listening'
  BY <1>2 DEF LoseSocket, Listening, Gapless, Stream, Coming, Taken, Snapshot, reader, sender, owner
<1>3. ASSUME ReadJoin
      PROVE  Listening'
  <2>1. /\ joining \in Conns /\ joining' = None /\ joining # None
        /\ Range(members') = Range(members) \cup {joining}
        /\ UNCHANGED <<done, closed, cto, heard, to, rest, posted>>
    BY <1>3, JoinedMember DEF ReadJoin
  <2>2. \A d \in Conns : Gapless(d) => Gapless(d)'
    BY <2>1 DEF Gapless, Stream, Coming, Taken
  <2>3. ASSUME joining \notin closed
        PROVE  Gapless(joining)
    <3>1. Stream(joining) = <<Snapshot(posted)>>
      BY <2>1, <2>3 DEF Listening
    <3>2. Coming(joining) <= posted + 1
      BY <2>1 DEF Coming
    <3>3. Coming(joining) \in Nat /\ posted \in Nat
      BY <2>1
    <3>4. GapFree(<<Snapshot(posted)>>, Coming(joining), posted)
      BY <3>2, <3>3, GapFreeSnapshot
    <3> QED
      BY <3>1, <3>4 DEF Gapless
  <2> QED
    BY <2>1, <2>2, <2>3 DEF Listening
<1>4. ASSUME NEW c \in Conns, ReadEnd(c)
      PROVE  Listening'
  <2>1. UNCHANGED <<closed, cto, heard, to, rest, posted, joining>>
    BY <1>4 DEF ReadEnd, sender, owner
  <2>2. Range(members') \subseteq Range(members)
    <3>1. CASE counted[c] = 0
      BY <1>4, <3>1 DEF ReadEnd
    <3>2. CASE counted[c] # 0
      BY <1>4, <3>2, EndedMember
    <3> QED
      BY <3>1, <3>2
  <2> QED
    BY <2>1, <2>2 DEF Listening, Gapless, Stream, Coming, Taken, Snapshot
<1>5. ASSUME SendTake
      PROVE  Listening'
  <2>1. /\ rest = <<>> /\ rest' = members /\ posted' = posted
        /\ Taken' = Taken + 1
        /\ UNCHANGED <<closed, members, cto, heard, joining>>
    BY <1>5, Took DEF web, reader, owner
  <2>2. Range(rest) = {}
    BY <2>1 DEF Range
  <2>3. ASSUME NEW d \in Range(members) \ closed
        PROVE  Gapless(d)'
    <3>1. Coming(d) = Taken + 1
      BY <2>2 DEF Coming
    <3>2. Coming(d)' = Taken + 1
      <4>1. d \in Range(rest')
        BY <2>1
      <4> QED
        BY <2>1, <4>1 DEF Coming
    <3> QED
      BY <2>1, <3>1, <3>2 DEF Listening, Gapless, Stream
  <2> QED
    BY <2>1, <2>3 DEF Listening, Stream, Snapshot
<1>6. ASSUME SendOne
      PROVE  Listening'
  <2>1. /\ UNCHANGED <<heard, posted, joining, members, done, closed, to, current>>
        /\ rest # <<>>
    BY <1>6 DEF SendOne, reader, owner
  <2>2. PICK c \in Conns :
              /\ c = Head(rest)
              /\ c \in Range(members) \cup done /\ c \in Range(rest)
              /\ Range(Tail(rest)) = Range(rest) \ {c}
    BY <2>1, RestTail DEF Posting, ClientTypes
  <2>3. CASE c \in done
    <3>1. cto' = cto /\ rest' = rest
      BY <1>6, <2>2, <2>3 DEF SendOne
    <3> QED
      BY <2>1, <3>1 DEF Listening, Gapless, Stream, Coming, Taken, Snapshot
  <2>4. CASE c \notin done
    <3>1. cto' = [cto EXCEPT ![c] = Append(@, News(current))] /\ rest' = Tail(rest)
      BY <1>6, <2>2, <2>4 DEF SendOne
    <3>2. current = Taken /\ Taken \in Nat /\ Taken' = Taken /\ posted \in Nat /\ Coming(c) = Taken
      BY <2>1, <2>2 DEF Posting, Taken, Coming
    <3>3. current \in 0..MaxPosts
      <4>1. Taken <= posted /\ posted \in 0..MaxPosts
        BY <2>2 DEF ClientTypes
      <4> QED
        BY <3>2, <4>1, ClientAssumption
    <3>4. News(Taken) \in Packets
      BY <3>2, <3>3, PacketType
    <3>5. /\ heard[c] \in Seq(Packets) /\ cto[c] \in Seq(Packets)
          /\ Stream(c) \in Seq(Packets)
      BY <2>2
    <3>6. /\ cto'[c] = Append(cto[c], News(Taken))
          /\ \A d \in Conns : d # c => cto'[d] = cto[d]
      BY <2>2, <3>1, <3>2 DEF ClientTypes
    <3>7. Stream(c)' = Append(Stream(c), News(Taken))
      <4>1. heard[c] \o Append(cto[c], News(Taken)) = Append(heard[c] \o cto[c], News(Taken))
        <5> DEFINE h == heard[c]
                   q == cto[c]
                   m == News(Taken)
        <5>1. h \in Seq(Packets) /\ q \in Seq(Packets) /\ m \in Packets
          BY <3>4, <3>5
        <5> HIDE DEF h, q, m
        <5>2. h \o Append(q, m) = Append(h \o q, m)
          BY ONLY <5>1, StreamGrows
        <5> QED
          BY <5>2 DEF h, q, m
      <4>2. Stream(c)' = heard[c] \o Append(cto[c], News(Taken))
        BY <2>1, <3>6 DEF Stream
      <4> QED
        BY <4>1, <4>2 DEF Stream
    <3>8. Coming(c)' = Taken + 1
      <4>1. c \notin Range(rest')
        BY <2>2, <3>1
      <4> QED
        BY <3>2, <4>1 DEF Coming
    <3>9. ASSUME Gapless(c)
          PROVE  Gapless(c)'
      <4>1. GapFree(Stream(c), Taken, posted)
        BY <3>2, <3>9 DEF Gapless
      <4>2. GapFree(Append(Stream(c), News(Taken)), Taken + 1, posted)
        BY <3>2, <3>4, <3>5, <4>1, GapFreeGrows
      <4> QED
        BY <2>1, <3>7, <3>8, <4>2 DEF Gapless
    <3>10. ASSUME NEW d \in Conns, d # c
           PROVE  Stream(d)' = Stream(d) /\ (Gapless(d) => Gapless(d)')
      <4>1. d \in Range(rest') <=> d \in Range(rest)
        BY <2>2, <3>1, <3>10
      <4>2. Coming(d)' = Coming(d) /\ Stream(d)' = Stream(d)
        BY <2>1, <3>2, <3>6, <3>10, <4>1 DEF Coming, Stream
      <4> QED
        BY <2>1, <4>2 DEF Gapless
    <3>11. joining # c
      BY <2>2 DEF Membership
    <3>12. ASSUME joining \notin closed \cup {None}
           PROVE  Stream(joining)' = <<Snapshot(posted)>>
      <4>1. joining \in Conns /\ Stream(joining) = <<Snapshot(posted)>>
        BY <3>12 DEF Listening, ClientTypes
      <4>2. Stream(joining) = heard[joining] \o cto[joining] /\ cto'[joining] = cto[joining]
        BY <3>6, <3>11, <4>1 DEF Stream
      <4> QED
        BY <2>1, <4>1, <4>2 DEF Stream
    <3>13. ASSUME NEW d \in Range(members) \ closed
           PROVE  Gapless(d)'
      <4>1. Gapless(d) /\ d \in Conns
        BY DEF Listening
      <4>2. CASE d = c
        BY <3>9, <4>1, <4>2
      <4>3. CASE d # c
        BY <3>10, <4>1, <4>3
      <4> QED
        BY <4>2, <4>3
    <3> QED
      BY <2>1, <3>12, <3>13 DEF Listening, Snapshot, Stream
  <2> QED
    BY <2>3, <2>4
<1>7. ASSUME OwnerPost
      PROVE  Listening'
  <2>1. /\ joining' = None /\ posted' = posted + 1 /\ posted \in Nat /\ Taken' = Taken
        /\ UNCHANGED <<closed, members, cto, heard, rest>>
    BY <1>7, Posted DEF web, reader
  <2>2. ASSUME NEW d \in Range(members) \ closed
        PROVE  Gapless(d)'
    <3>1. GapFree(Stream(d), Coming(d), posted) /\ Stream(d) \in Seq(Packets)
      BY DEF Listening, Gapless
    <3>2. Stream(d)' = Stream(d) /\ Coming(d)' = Coming(d)
      BY <2>1 DEF Stream, Coming
    <3>3. Stream(d)[1].n \in Nat
      <4>1. Stream(d)[1] \in Packets
        BY <3>1 DEF GapFree
      <4> QED
        BY <4>1, ClientAssumption DEF Packets
    <3>4. Stream(d)[1].n <= posted + 1
      BY <2>1, <3>1, <3>3 DEF GapFree
    <3>5. GapFree(Stream(d), Coming(d), posted + 1)
      BY <3>1, <3>4 DEF GapFree
    <3> QED
      BY <2>1, <3>2, <3>5 DEF Gapless
  <2> QED
    BY <2>1, <2>2 DEF Listening
<1>8. ASSUME NEW c \in Conns, OwnerConsume(c)
      PROVE  Listening'
  <2>1. /\ joining = None /\ joining' = c
        /\ c \notin Range(members) /\ c \notin done
        /\ UNCHANGED <<heard, posted, members, done, closed, rest, to>>
        /\ cto' = [cto EXCEPT ![c] = Append(@, Snapshot(posted))]
    BY <1>8 DEF OwnerConsume, OwnerFree, Fresh, Newest, reader, sender
  <2>2. cto[c] = <<>> /\ heard[c] = <<>>
    BY <2>1, ClientAssumption DEF Handing
  <2>3. cto'[c] = <<Snapshot(posted)>> /\ \A d \in Conns : d # c => cto'[d] = cto[d]
    BY <2>1, <2>2 DEF ClientTypes
  <2>4. Stream(c)' = <<Snapshot(posted)>>
    BY <2>1, <2>2, <2>3 DEF Stream
  <2>5. ASSUME NEW d \in Range(members) \ closed
        PROVE  Gapless(d)'
    <3>1. Gapless(d) /\ d # c /\ d \in Conns
      BY <2>1 DEF Listening
    <3> QED
      BY <2>1, <2>3, <3>1 DEF Gapless, Stream, Coming, Taken
  <2>6. Stream(joining)' = Stream(c)'
    BY <2>1 DEF Stream
  <2> QED
    BY <2>1, <2>4, <2>5, <2>6 DEF Listening, Snapshot
<1>9. ASSUME UNCHANGED <<closed, members, joining, heard, cto, rest, to, posted>>
      PROVE  Listening'
  BY <1>9 DEF Listening, Gapless, Stream, Coming, Taken, Snapshot
<1>10. ASSUME NEW c \in Conns, Run(c) \/ ReadSocket(c) \/ ReadMessage(c)
       PROVE  UNCHANGED <<closed, members, joining, heard, cto, rest, to, posted>>
  BY <1>10 DEF Run, ReadSocket, ReadMessage, reader, sender, owner
<1>11. ASSUME Expose \/ OwnerRead \/ UNCHANGED vars
       PROVE  UNCHANGED <<closed, members, joining, heard, cto, rest, to, posted>>
  BY <1>11 DEF Expose, OwnerRead, vars, web, reader, sender, owner
<1> QED
  BY <1>1, <1>2, <1>3, <1>4, <1>5, <1>6, <1>7, <1>8, <1>9, <1>10, <1>11 DEF Next


-----------------------------------------------------------------------------
(* Messages on their way up.                                               *)

LEMMA MembersStay ==
    ASSUME ClientTypes, Membership, [Next]_vars
    PROVE  Range(members) \cup done \subseteq Range(members') \cup done'
<1>1. ASSUME NEW c \in Conns, ReadEnd(c)
      PROVE  Range(members) \cup done \subseteq Range(members') \cup done'
  <2>1. CASE counted[c] = 0
    BY <1>1, <2>1 DEF ReadEnd
  <2>2. CASE counted[c] # 0
    BY <1>1, <2>2, EndedMember
  <2> QED
    BY <2>1, <2>2
<1>2. ASSUME ReadJoin
      PROVE  Range(members) \cup done \subseteq Range(members') \cup done'
  BY <1>2, JoinedMember
<1>3. ASSUME NEW c \in Conns,
             \/ Run(c) \/ ReadSocket(c) \/ LoseSocket(c) \/ WriteSocket(c)
             \/ ReadMessage(c) \/ OwnerConsume(c)
      PROVE  UNCHANGED <<members, done>>
  BY <1>3 DEF Run, ReadSocket, LoseSocket, WriteSocket, ReadMessage, OwnerConsume, reader
<1>4. ASSUME Expose \/ SendTake \/ SendOne \/ OwnerPost \/ OwnerRead \/ UNCHANGED vars
      PROVE  UNCHANGED <<members, done>>
  BY <1>4 DEF Expose, SendTake, SendOne, OwnerPost, OwnerRead, vars, web, reader
<1> QED
  BY <1>1, <1>2, <1>3, <1>4 DEF Next

LEMMA OriginsStep ==
    ASSUME ClientTypes, Membership, Origins, [Next]_vars
    PROVE  Origins'
<1>1. Range(members) \cup done \subseteq Range(members') \cup done'
  BY MembersStay
<1>2. ASSUME NEW c \in Conns, ReadSocket(c)
      PROVE  Origins'
  <2> DEFINE m == <<c, sent[c] + 1>>
             q == cfrom[c]
  <2>1. /\ q \in Seq(Messages) /\ cfrom' = [cfrom EXCEPT ![c] = Append(q, m)]
        /\ UNCHANGED <<from, held>>
    BY <1>2 DEF ReadSocket, ClientTypes, reader
  <2>2. m[1] = c /\ \A i \in DOMAIN q : q[i][1] = c
    BY DEF Origins
  <2> HIDE DEF m, q
  <2>3. ASSUME NEW i \in DOMAIN Append(q, m)
        PROVE  Append(q, m)[i][1] = c
    BY <2>1, <2>2
  <2>4. /\ cfrom'[c] = Append(q, m)
        /\ \A d \in Conns : d # c => cfrom'[d] = cfrom[d]
    BY <2>1 DEF ClientTypes
  <2> QED
    BY <1>1, <2>1, <2>3, <2>4 DEF Origins
<1>3. ASSUME NEW c \in Conns, ReadMessage(c)
      PROVE  Origins'
  <2> DEFINE q == cfrom[c]
  <2>1. /\ q \in Seq(Messages) /\ q # <<>> /\ cfrom' = [cfrom EXCEPT ![c] = Tail(q)]
        /\ held' = Head(q) /\ c \in Range(members) /\ UNCHANGED from
    BY <1>3 DEF ReadMessage, ClientTypes
  <2>2. \A i \in DOMAIN q : q[i][1] = c
    BY DEF Origins
  <2> HIDE DEF q
  <2>3. /\ \A i \in DOMAIN Tail(q) : i + 1 \in DOMAIN q /\ Tail(q)[i] = q[i + 1]
        /\ Head(q) = q[1] /\ 1 \in DOMAIN q
    BY <2>1
  <2>4. /\ cfrom'[c] = Tail(q)
        /\ \A d \in Conns : d # c => cfrom'[d] = cfrom[d]
    BY <2>1 DEF ClientTypes
  <2> QED
    BY <1>1, <2>1, <2>2, <2>3, <2>4 DEF Origins
<1>4. ASSUME Expose
      PROVE  Origins'
  <2>1. /\ from \in Seq(Messages) /\ held \in Messages /\ held # None
        /\ from' = Append(from, held) /\ held' = None /\ UNCHANGED cfrom
    BY <1>4 DEF Expose, ClientTypes, web
  <2>2. \A i \in DOMAIN from' :
           (i \in DOMAIN from /\ from'[i] = from[i]) \/ from'[i] = held
    BY <2>1
  <2> QED
    BY <1>1, <2>1, <2>2 DEF Origins
<1>5. ASSUME OwnerRead
      PROVE  Origins'
  <2>1. from \in Seq(Messages) /\ from # <<>> /\ from' = Tail(from) /\ UNCHANGED <<held, cfrom>>
    BY <1>5 DEF OwnerRead, ClientTypes, web
  <2>2. \A i \in DOMAIN from' : i + 1 \in DOMAIN from /\ from'[i] = from[i + 1]
    BY <2>1
  <2> QED
    BY <1>1, <2>1, <2>2 DEF Origins
<1>6. ASSUME ReadJoin
      PROVE  Origins'
  <2>1. from' \in {from, <<>>} /\ UNCHANGED <<held, cfrom>>
    BY <1>6 DEF ReadJoin, web
  <2> QED
    BY <1>1, <2>1 DEF Origins
<1>7. ASSUME UNCHANGED <<from, held, cfrom>>
      PROVE  Origins'
  BY <1>1, <1>7 DEF Origins
<1>8. ASSUME NEW c \in Conns,
             \/ Run(c) \/ LoseSocket(c) \/ WriteSocket(c) \/ ReadEnd(c) \/ OwnerConsume(c)
      PROVE  UNCHANGED <<from, held, cfrom>>
  BY <1>8 DEF Run, LoseSocket, WriteSocket, ReadEnd, OwnerConsume, reader
<1>9. ASSUME SendTake \/ SendOne \/ OwnerPost \/ UNCHANGED vars
      PROVE  UNCHANGED <<from, held, cfrom>>
  BY <1>9 DEF SendTake, SendOne, OwnerPost, vars, web, reader
<1> QED
  BY <1>2, <1>3, <1>4, <1>5, <1>6, <1>7, <1>8, <1>9 DEF Next


-----------------------------------------------------------------------------
(* The invariant holds.                                                    *)

LEMMA ClientInit == Init => ClientInv
<1> SUFFICES ASSUME Init
             PROVE  ClientInv
  OBVIOUS
<1> USE ClientAssumption
<1>1. /\ Snapshot(0) \in Packets
      /\ <<Snapshot(0)>> \in Seq(Packets) /\ Len(<<Snapshot(0)>>) = 1
  <2>1. Snapshot(0) \in Packets
    BY PacketType
  <2> QED
    BY <2>1
<1>2. cto \in [Conns -> Seq(Packets)] /\ \A c \in Conns : Len(cto[c]) <= ChanCap
  BY <1>1 DEF Init
<1>3. ClientTypes
  <2>1. First \in Conns /\ members = <<First>>
    BY DEF Init
  <2>2. members \in Seq(Conns)
    BY <2>1
  <2>3. sent \in [Conns -> Nat] /\ \A c \in Conns : sent[c] <= MaxSent[c]
    BY DEF Init
  <2>4. counted \in [Conns -> 0..1] /\ heard \in [Conns -> Seq(Packets)]
    BY DEF Init
  <2>5. cfrom \in [Conns -> Seq(Messages)] /\ \A c \in Conns : Len(cfrom[c]) <= ChanCap
    BY DEF Init
  <2>6. /\ from \in Seq(Messages) /\ Len(from) <= ChanCap
        /\ to \in Seq(1..MaxPosts) /\ Len(to) <= ChanCap
        /\ rest \in Seq(Conns) /\ posted \in 0..MaxPosts
    BY DEF Init
  <2> QED
    BY <1>2, <2>2, <2>3, <2>4, <2>5, <2>6 DEF Init, ClientTypes
<1>4. Counting
  BY DEF Init, Counting
<1>5. Range(members) = {First} /\ IsInjective(members) /\ members # <<>>
  BY DEF Init, Range, IsInjective
<1>6. Membership
  BY <1>5 DEF Init, Membership
<1>7. Posting
  BY DEF Init, Posting, Taken, IsInjective, Range
<1>8. Handing
  <2>1. \A c \in Conns \ {First} : cto[c] = <<>> /\ heard[c] = <<>>
    BY DEF Init
  <2>2. \A c \in Conns : \A i \in DOMAIN cto[c] : i = 1
    BY <1>1 DEF Init
  <2> QED
    BY <1>5, <2>1, <2>2 DEF Init, Handing
<1>9. Listening
  <2>1. Stream(First) = <<Snapshot(0)>>
    <3>1. heard[First] = <<>> /\ cto[First] = <<Snapshot(0)>>
      BY DEF Init
    <3> QED
      BY <3>1 DEF Stream
  <2>2. Coming(First) = 1
    BY DEF Init, Coming, Taken, Range
  <2>3. GapFree(<<Snapshot(0)>>, 1, 0)
    BY GapFreeSnapshot
  <2>4. Gapless(First)
    BY <2>1, <2>2, <2>3 DEF Gapless, Init
  <2> QED
    BY <1>5, <2>4 DEF Listening, Init
<1>10. Origins
  BY DEF Init, Origins
<1> QED
  BY <1>3, <1>4, <1>6, <1>7, <1>8, <1>9, <1>10 DEF ClientInv

LEMMA TypesStep ==
    ASSUME ClientInv, [Next]_vars
    PROVE  ClientTypes'
<1>1. ClientTypes /\ Counting /\ Membership /\ Posting /\ Handing
  BY DEF ClientInv
<1>2. CASE \E c \in Conns : Run(c) \/ ReadSocket(c) \/ LoseSocket(c) \/ WriteSocket(c)
  BY <1>1, <1>2, ConnTypes
<1>3. CASE ReadJoin \/ Expose \/ \E c \in Conns : ReadMessage(c) \/ ReadEnd(c)
  BY <1>1, <1>3, ReaderTypes
<1>4. CASE SendTake \/ SendOne \/ OwnerPost \/ OwnerRead \/ \E c \in Conns : OwnerConsume(c)
  BY <1>1, <1>4, SenderTypes
<1>5. CASE UNCHANGED vars
  BY <1>1, <1>5 DEF ClientTypes, vars, web, reader, sender, owner
<1> QED
  BY <1>2, <1>3, <1>4, <1>5 DEF Next

LEMMA ClientStep == ClientInv /\ [Next]_vars => ClientInv'
<1> SUFFICES ASSUME ClientInv, [Next]_vars
             PROVE  ClientInv'
  OBVIOUS
<1>1. ClientTypes /\ Counting /\ Membership /\ Posting /\ Handing /\ Listening /\ Origins
  BY DEF ClientInv
<1>2. ClientTypes'
  BY TypesStep
<1>3. Counting' /\ Membership'
  BY <1>1, CountingStep, MembershipStep
<1>4. Posting' /\ Handing'
  BY <1>1, PostingStep, HandingStep
<1>5. Listening'
  BY <1>1, ListeningStep
<1>6. Origins'
  BY <1>1, OriginsStep
<1> QED
  BY <1>2, <1>3, <1>4, <1>5, <1>6 DEF ClientInv

LEMMA ClientAlways == Spec => []ClientInv
BY ClientInit, ClientStep, PTL DEF Spec

-----------------------------------------------------------------------------
(* Theorems.                                                               *)

\* Every variable keeps its type and the channels keep to their capacity: no
\* goroutine of multiweb.go or web.go puts into a full channel.
THEOREM ClientTypeCorrect == Spec => []TypeOK
<1>1. ASSUME ClientInv
      PROVE  TypeOK
  <2>1. ClientTypes
    BY <1>1 DEF ClientInv
  <2>2. /\ \A c \in Conns : sent[c] \in 0..MaxSent[c]
    BY <2>1, ClientAssumption DEF ClientTypes
  <2>3. \A c \in Conns : Range(cfrom[c]) \subseteq Messages
    BY <2>1, RangeOfSeq DEF ClientTypes
  <2>4. Range(members) \subseteq Conns /\ Range(rest) \subseteq Conns
    BY <2>1, RangeOfSeq DEF ClientTypes
  <2>5. Range(from) \subseteq Messages /\ Range(to) \subseteq 1..MaxPosts
    BY <2>1, RangeOfSeq DEF ClientTypes
  <2> QED
    BY <2>1, <2>2, <2>3, <2>4, <2>5 DEF TypeOK, ClientTypes
<1> QED
  BY <1>1, ClientAlways, PTL

\* A connection that remove (multiweb.go) takes off the IpChecker's count was added
\* to it by Run (web.go): Sub does not meet an address it does not know.
THEOREM LeaversAreCounted == Spec => []LeaverWasCounted
<1>1. ASSUME ClientInv
      PROVE  LeaverWasCounted
  <2>1. ClientTypes /\ Counting /\ Membership
    BY <1>1 DEF ClientInv
  <2>2. Range(members) \subseteq Conns
    BY <2>1, MemberTypes
  <2> QED
    BY <2>1, <2>2 DEF LeaverWasCounted, Counting, Membership
<1> QED
  BY <1>1, ClientAlways, PTL

\* from is open exactly while the client has a connection, and what a connection
\* sent was taken before it was removed (add and remove of multiweb.go).
THEOREM OpenExactly == Spec => []OpenWhileMembers
<1>1. ClientInv => OpenWhileMembers
  BY DEF ClientInv, Membership, OpenWhileMembers
<1> QED
  BY <1>1, ClientAlways, PTL

\* What connection c is told after its snapshot, and how it ends.
LEMMA NewsOfStream ==
    ASSUME ClientInv, NEW c \in Conns, Gapless(c),
           NEW news, news = Numbers(Tail(Stream(c))) \o Behind(c)
    PROVE  /\ news \in Seq(Int)
           /\ Len(news) = Len(Stream(c)) + posted - Coming(c)
           /\ Len(news) \in Nat
           /\ \A i \in 1..Len(news) : news[i] = Coming(c) - Len(Stream(c)) + i
<1>1. ClientTypes /\ Posting
  BY DEF ClientInv
<1>2. /\ Stream(c) \in Seq(Packets) /\ Coming(c) \in Nat
      /\ Taken \in Nat /\ posted \in Nat /\ Taken <= posted
  BY <1>1, StreamTypes
<1> DEFINE s == Stream(c)
           k == Coming(c)
           a == Numbers(Tail(s))
           b == Behind(c)
<1>3. /\ a \in Seq(Int) /\ Len(a) = Len(s) - 1 /\ Len(s) \in Nat \ {0}
      /\ \A i \in 1..Len(s) - 1 : a[i] = k - Len(s) + i
  <2>1. s \in Seq(Packets) /\ s # <<>> /\ GapFree(s, k, posted) /\ k \in Nat
    BY <1>2 DEF Gapless, GapFree
  <2> HIDE DEF s, k
  <2>2. /\ Len(s) \in Nat \ {0} /\ Len(Tail(s)) = Len(s) - 1
        /\ Tail(s) \in Seq(Packets) /\ DOMAIN Tail(s) = 1..Len(s) - 1
        /\ \A i \in 1..Len(s) - 1 : Tail(s)[i] = s[i + 1]
    BY <2>1
  <2>3. a = [i \in 1..Len(s) - 1 |-> Tail(s)[i].n]
    BY <2>2 DEF Numbers
  <2>4. ASSUME NEW i \in 1..Len(s) - 1
        PROVE  Tail(s)[i].n = k - Len(s) + i
    <3>1. i + 1 \in 2..Len(s) /\ (i + 1) - 1 = i
      BY <2>2
    <3>2. s[i + 1] = News(k - Len(s) + (i + 1) - 1)
      BY <2>1, <3>1 DEF GapFree
    <3>3. k - Len(s) + (i + 1) - 1 = k - Len(s) + i
      BY <2>1, <2>2
    <3> QED
      BY <2>2, <3>2, <3>3 DEF News
  <2>5. ASSUME NEW i \in 1..Len(s) - 1
        PROVE  a[i] = k - Len(s) + i /\ a[i] \in Int
    <3>1. a[i] = Tail(s)[i].n
      BY <2>3
    <3>2. k - Len(s) + i \in Int
      BY <2>1, <2>2
    <3> QED
      BY <2>4, <3>1, <3>2
  <2> HIDE DEF a
  <2>6. DOMAIN a = 1..Len(s) - 1 /\ Len(s) - 1 \in Nat /\ a = [i \in 1..Len(s) - 1 |-> a[i]]
    BY <2>2, <2>3 DEF a
  <2> QED
    BY <2>2, <2>5, <2>6
<1>4. /\ b \in Seq(Int) /\ Len(b) = posted + 1 - k
      /\ \A i \in 1..Len(b) : b[i] = k - 1 + i
  <2>1. /\ to \in Seq(Int) /\ Len(to) = posted - Taken
        /\ \A i \in 1..Len(to) : to[i] = Taken + i
    <3>1. to \in Seq(1..MaxPosts) /\ Len(to) \in Nat
      BY <1>1 DEF ClientTypes
    <3>2. Len(to) = posted - Taken
      BY <1>2, <3>1 DEF Taken
    <3>3. \A i \in 1..Len(to) : to[i] = Taken + i
      BY <1>1, <3>1 DEF Posting
    <3>4. 1..MaxPosts \subseteq Int
      OBVIOUS
    <3>5. to \in Seq(Int)
      BY ONLY <3>1, <3>4, SeqOfSubset
    <3> QED
      BY <3>2, <3>3, <3>5
  <2>2. CASE c \in Range(rest)
    <3>1. k = Taken /\ current = Taken /\ b = <<current>> \o to
      <4>1. rest # <<>>
        BY <2>2 DEF Range
      <4> QED
        BY <1>1, <2>2, <4>1 DEF Coming, Posting, Behind
    <3> HIDE DEF b, k
    <3>2. /\ <<Taken>> \o to \in Seq(Int) /\ Len(<<Taken>> \o to) = Len(to) + 1
          /\ \A i \in 1..Len(to) + 1 :
                (<<Taken>> \o to)[i] = IF i = 1 THEN Taken ELSE to[i - 1]
      BY <1>2, <2>1
    <3>3. Len(to) \in Nat
      BY <1>2, <2>1
    <3>4. ASSUME NEW i \in 1..Len(to) + 1
          PROVE  (<<Taken>> \o to)[i] = Taken - 1 + i
      <4>1. CASE i = 1
        BY <1>2, <3>2, <4>1
      <4>2. CASE i # 1
        <5>1. i - 1 \in 1..Len(to) /\ (<<Taken>> \o to)[i] = to[i - 1]
          BY <3>2, <3>3, <4>2
        <5>2. to[i - 1] = Taken + (i - 1)
          BY <2>1, <5>1
        <5> QED
          BY <1>2, <3>3, <5>1, <5>2
      <4> QED
        BY <4>1, <4>2
    <3> QED
      BY <1>2, <2>1, <3>1, <3>2, <3>4
  <2>3. CASE c \notin Range(rest)
    <3>1. k = Taken + 1 /\ b = <<>> \o to
      BY <2>3 DEF Coming, Behind
    <3>2. b = to
      BY <2>1, <3>1, ConcatEmptySeq
    <3> HIDE DEF b, k
    <3> QED
      BY <1>2, <2>1, <3>1, <3>2
  <2> QED
    BY <2>2, <2>3
<1>5. k \in Nat /\ posted \in Nat /\ posted + 1 - k \in Nat
  BY <1>2, <1>4 DEF Coming
<1> HIDE DEF s, k, a, b
<1>6. /\ a \o b \in Seq(Int)
      /\ Len(a \o b) = Len(a) + Len(b)
      /\ \A i \in 1 .. Len(a) + Len(b) :
            (a \o b)[i] = IF i <= Len(a) THEN a[i] ELSE b[i - Len(a)]
  BY <1>3, <1>4, ConcatProperties
<1>7. Len(a) + Len(b) = Len(s) + posted - k /\ Len(a) + Len(b) \in Nat
  BY <1>3, <1>4, <1>5
<1>8. ASSUME NEW i \in 1 .. Len(a) + Len(b)
      PROVE  (a \o b)[i] = k - Len(s) + i
  <2>1. CASE i <= Len(a)
    BY <1>3, <1>6, <2>1
  <2>2. CASE ~ (i <= Len(a))
    <3>1. i - Len(a) \in 1..Len(b)
      BY <1>3, <1>4, <1>5, <2>2
    <3>2. (a \o b)[i] = k - 1 + (i - Len(a))
      BY <1>4, <1>6, <2>2, <3>1
    <3> QED
      BY <1>3, <1>5, <3>2
  <2> QED
    BY <2>1, <2>2
<1>9. news = a \o b
  BY DEF a, b, s
<1> QED
  BY <1>6, <1>7, <1>8, <1>9 DEF s, k

\* A connection that lives and was handed over (handleJoin, Consume) is told the
\* state of the table and then every post from the one after it at the latest, in
\* order and with none left out: what the sender took when it copied the list,
\* what waits in the client's to and in the connection's to, and what it has
\* heard, make one run of numbers that ends with the last post.
THEOREM SnapshotThenNews == Spec => []NoGapAfterSnapshot
<1>1. ASSUME ClientInv
      PROVE  NoGapAfterSnapshot
  <2> SUFFICES ASSUME NEW c \in Range(members) \ closed,
                      NEW told, told = Stream(c),
                      NEW news, news = Numbers(Tail(told)) \o Behind(c)
               PROVE  NewsFollow(told, news)
    BY Zenon DEF NoGapAfterSnapshot, Stream
  <2>1. ClientTypes /\ Posting /\ Gapless(c) /\ c \in Conns
    BY <1>1, MemberTypes DEF ClientInv, Listening
  <2> DEFINE k == Coming(c)
  <2>2. told \in Seq(Packets) /\ k \in Nat /\ posted \in Nat /\ GapFree(told, k, posted)
    BY <2>1, StreamTypes DEF Gapless
  <2>3. /\ news \in Seq(Int)
        /\ Len(news) = Len(told) + posted - k
        /\ Len(news) \in Nat
        /\ \A i \in 1..Len(news) : news[i] = k - Len(told) + i
    BY <1>1, <2>1, NewsOfStream
  <2> HIDE DEF k
  <2>4. news = <<>> <=> Len(news) = 0
    BY <2>3
  <2>5. /\ told # <<>> /\ Head(told) = told[1] /\ Len(told) \in Nat
        /\ told[1].kind = "Full" /\ told[1].n \in Nat
        /\ told[1].n <= posted /\ k - Len(told) <= told[1].n
    <3>1. /\ told # <<>> /\ told[1].kind = "Full"
          /\ told[1].n <= posted /\ k - Len(told) <= told[1].n
      BY <2>2 DEF GapFree
    <3>2. Head(told) = told[1] /\ told[1] \in Packets /\ Len(told) \in Nat
      BY <2>2, <3>1
    <3> QED
      BY <3>1, <3>2, ClientAssumption DEF Packets
  <2>6. \A i \in 2..Len(told) : told[i].kind = "News"
    <3>1. \A x : News(x).kind = "News"
      BY DEF News
    <3> QED
      BY <2>2, <3>1 DEF GapFree
  <2>7. CASE news = <<>>
    <3> DEFINE n == told[1].n
    <3>1. n \in Nat /\ k - Len(told) <= n /\ n <= posted /\ Head(told).n = n
      BY <2>5
    <3> HIDE DEF n
    <3>2. Len(told) + posted - k = 0
      BY <2>3, <2>4, <2>7
    <3>3. Head(told).n = posted
      BY <2>2, <2>5, <3>1, <3>2
    <3>4. told # <<>> /\ Head(told).kind = "Full"
      BY <2>5
    <3> QED
      BY <2>6, <2>7, <3>3, <3>4 DEF NewsFollow
  <2>8. CASE news # <<>>
    <3>1. Len(news) \in Nat \ {0} /\ 1 \in 1..Len(news) /\ Len(news) \in 1..Len(news)
      BY <2>3, <2>4, <2>8
    <3>2. Head(news) = news[1]
      BY <2>3, <2>8
    <3>3. Head(news) = k - Len(told) + 1
      BY <2>3, <3>1, <3>2
    <3>4. Head(news) <= Head(told).n + 1
      <4> DEFINE n == told[1].n
      <4>1. n \in Nat /\ k - Len(told) <= n /\ Head(told).n = n
        BY <2>5
      <4> HIDE DEF n
      <4>2. k - Len(told) + 1 <= n + 1
        BY <2>2, <2>5, <4>1
      <4> QED
        BY <3>3, <4>1, <4>2
    <3>5. news[Len(news)] = posted
      <4>1. news[Len(news)] = k - Len(told) + Len(news)
        BY <2>3, <3>1
      <4>2. k - Len(told) + (Len(told) + posted - k) = posted
        BY <2>2, <2>5
      <4> QED
        BY <2>3, <4>1, <4>2
    <3>6. ASSUME NEW i \in 1..(Len(news) - 1)
          PROVE  news[i + 1] = news[i] + 1
      <4>1. i \in 1..Len(news) /\ i + 1 \in 1..Len(news) /\ i \in Nat
        BY <2>3
      <4>2. news[i] = k - Len(told) + i /\ news[i + 1] = k - Len(told) + (i + 1)
        BY <2>3, <4>1
      <4> DEFINE l == Len(told)
      <4>3. l \in Nat
        BY <2>5
      <4> HIDE DEF l
      <4>4. k - l + (i + 1) = (k - l + i) + 1
        BY <2>2, <4>1, <4>3
      <4> QED
        BY <4>2, <4>4 DEF l
    <3>7. told # <<>> /\ Head(told).kind = "Full"
      BY <2>5
    <3> QED
      BY <2>5, <2>6, <2>8, <3>4, <3>5, <3>6, <3>7 DEF NewsFollow
  <2> QED
    BY <2>7, <2>8
<1> QED
  BY <1>1, ClientAlways, PTL


-----------------------------------------------------------------------------
(* The messages of one connection in a channel with those of others.       *)

LEMMA RankGrows ==
    ASSUME NEW K \in SUBSET Nat, IsFiniteSet(K), NEW i \in K
    PROVE  /\ Rank(K, i) \in 0 .. Cardinality(K) - 1
           /\ Cardinality(K) \in Nat
           /\ \A j \in K : i < j => Rank(K, i) < Rank(K, j)
<1> DEFINE B(j) == {k \in K : k < j}
<1>1. ASSUME NEW j \in K
      PROVE  IsFiniteSet(B(j)) /\ Rank(K, j) = Cardinality(B(j)) /\ Rank(K, j) \in Nat
  <2>1. B(j) \in SUBSET K
    OBVIOUS
  <2>2. IsFiniteSet(B(j))
    BY <2>1, FS_Subset
  <2>3. Cardinality(B(j)) \in Nat
    BY <2>2, FS_CardinalityType
  <2> QED
    BY <2>2, <2>3 DEF Rank
<1>2. Cardinality(K) \in Nat
  BY FS_CardinalityType
<1>3. Rank(K, i) <= Cardinality(K) /\ Rank(K, i) # Cardinality(K)
  <2>1. B(i) \in SUBSET K /\ i \notin B(i)
    OBVIOUS
  <2>2. Cardinality(B(i)) <= Cardinality(K) /\ (Cardinality(K) = Cardinality(B(i)) => K = B(i))
    BY <2>1, FS_Subset
  <2> QED
    BY <1>1, <2>1, <2>2
<1>4. ASSUME NEW j \in K, i < j
      PROVE  Rank(K, i) < Rank(K, j)
  <2>1. B(i) \in SUBSET B(j)
    <3>1. \A k \in K : k < i => k < j
      BY <1>4
    <3> QED
      BY <3>1
  <2>2. i \in B(j) /\ i \notin B(i)
    BY <1>4
  <2>3. /\ Cardinality(B(i)) <= Cardinality(B(j))
        /\ (Cardinality(B(j)) = Cardinality(B(i)) => B(j) = B(i))
    BY <1>1, <2>1, FS_Subset
  <2> HIDE DEF B
  <2>4. Cardinality(B(i)) # Cardinality(B(j))
    BY <2>2, <2>3
  <2> QED
    BY <1>1, <2>3, <2>4
<1> HIDE DEF B
<1> QED
  BY <1>1, <1>2, <1>3, <1>4

LEMMA NthOfRank ==
    ASSUME NEW K \in SUBSET Nat, IsFiniteSet(K), NEW i \in K
    PROVE  Nth(K, Rank(K, i) + 1) = i
<1>1. ASSUME NEW j \in K, Rank(K, j) = Rank(K, i)
      PROVE  j = i
  <2>1. ~ (i < j) /\ ~ (j < i)
    BY <1>1, RankGrows
  <2> QED
    BY <2>1
<1>2. Rank(K, i) \in Int
  BY RankGrows
<1> DEFINE r == Rank(K, i)
<1>3. \A j \in K : Rank(K, j) = (r + 1) - 1 <=> j = i
  BY <1>1, <1>2
<1> HIDE DEF r
<1> QED
  BY <1>3 DEF Nth, r

LEMMA NthExists ==
    ASSUME NEW K \in SUBSET Nat, IsFiniteSet(K), NEW j \in 1..Cardinality(K)
    PROVE  Nth(K, j) \in K /\ Rank(K, Nth(K, j)) = j - 1
<1> DEFINE n == Cardinality(K)
           T == 0 .. n - 1
           f == [i \in K |-> Rank(K, i)]
<1>1. n \in Nat
  BY FS_CardinalityType
<1>2. IsFiniteSet(T) /\ Cardinality(T) = n
  <2>1. 0 \in Int /\ n - 1 \in Int
    BY <1>1
  <2>2. IsFiniteSet(T) /\ Cardinality(T) = IF 0 > n - 1 THEN 0 ELSE (n - 1) - 0 + 1
    BY <2>1, FS_Interval
  <2> QED
    BY <1>1, <2>2
<1>3. f \in [K -> T]
  BY RankGrows
<1>4. \A a, b \in K : f[a] = f[b] => a = b
  <2> SUFFICES ASSUME NEW a \in K, NEW b \in K, Rank(K, a) = Rank(K, b)
               PROVE  a = b
    OBVIOUS
  <2>1. ~ (a < b) /\ ~ (b < a)
    BY RankGrows
  <2> QED
    BY <2>1
<1>5. f \in Injection(K, T)
  BY <1>3, <1>4, Fun_IsInj
<1>6. f \in Surjection(K, T)
  BY <1>2, <1>5, FS_Injection
<1>7. j - 1 \in T
  BY <1>1
<1>8. \E i \in K : f[i] = j - 1
  <2> HIDE DEF f, T
  <2>1. \A x \in T : \E i \in K : f[i] = x
    BY <1>6, Fun_SurjectionProperties
  <2> QED
    BY <1>7, <2>1
<1>9. \E i \in K : Rank(K, i) = j - 1
  BY <1>8
<1> QED
  BY <1>9 DEF Nth


LEMMA MessageFields ==
    ASSUME NEW m \in Messages
    PROVE  m[1] \in Conns /\ m[2] \in Nat /\ m = <<m[1], m[2]>> /\ m # None
BY ClientAssumption DEF Messages

LEMMA PlacesFinite ==
    ASSUME NEW c \in Conns, NEW s \in Seq(Messages)
    PROVE  /\ Places(c, s) \subseteq 1..Len(s)
           /\ Places(c, s) \in SUBSET Nat
           /\ IsFiniteSet(Places(c, s))
           /\ Cardinality(Places(c, s)) \in Nat
<1>1. Len(s) \in Nat /\ DOMAIN s = 1..Len(s)
  OBVIOUS
<1>2. Places(c, s) \subseteq 1..Len(s)
  BY <1>1 DEF Places
<1>3. IsFiniteSet(1..Len(s))
  BY <1>1, FS_Interval
<1>4. IsFiniteSet(Places(c, s))
  BY <1>2, <1>3, FS_Subset
<1> QED
  BY <1>1, <1>2, <1>4, FS_CardinalityType

LEMMA NumbersType ==
    ASSUME NEW c \in Conns, NEW s \in Seq(Messages)
    PROVE  /\ NumbersOf(c, s) \in Seq(Nat)
           /\ Len(NumbersOf(c, s)) = Cardinality(Places(c, s))
           /\ \A j \in 1..Cardinality(Places(c, s)) :
                 NumbersOf(c, s)[j] = s[Nth(Places(c, s), j)][2]
<1> DEFINE K == Places(c, s)
<1>1. K \in SUBSET Nat /\ IsFiniteSet(K) /\ Cardinality(K) \in Nat /\ K \subseteq DOMAIN s
  BY PlacesFinite DEF Places
<1> HIDE DEF K
<1>2. ASSUME NEW j \in 1..Cardinality(K)
      PROVE  s[Nth(K, j)][2] \in Nat
  <2>1. Nth(K, j) \in DOMAIN s
    BY <1>1, NthExists
  <2>2. s[Nth(K, j)] \in Messages
    BY <2>1
  <2> QED
    BY <2>2, MessageFields
<1> DEFINE N == [j \in 1..Cardinality(K) |-> s[Nth(K, j)][2]]
<1>3. NumbersOf(c, s) = N
  BY DEF NumbersOf, K
<1>4. N \in [1..Cardinality(K) -> Nat]
  BY <1>2
<1>5. N \in Seq(Nat) /\ Len(N) = Cardinality(K)
  <2> HIDE DEF N
  <2> QED
    BY <1>1, <1>4
<1>6. \A j \in 1..Cardinality(K) : N[j] = s[Nth(K, j)][2]
  OBVIOUS
<1> QED
  BY <1>3, <1>5, <1>6 DEF K

LEMMA NumbersNone ==
    ASSUME NEW c \in Conns, NEW s \in Seq(Messages), \A i \in DOMAIN s : s[i][1] # c
    PROVE  NumbersOf(c, s) = <<>>
<1>1. Places(c, s) = {}
  BY DEF Places
<1>2. Len(NumbersOf(c, s)) = 0 /\ NumbersOf(c, s) \in Seq(Nat)
  BY <1>1, NumbersType, FS_EmptySet
<1> QED
  BY <1>2

LEMMA NumbersEmpty ==
    ASSUME NEW c \in Conns
    PROVE  NumbersOf(c, <<>>) = <<>>
<1> DEFINE s == <<>>
<1>1. s \in Seq(Messages) /\ DOMAIN s = {}
  OBVIOUS
<1> HIDE DEF s
<1>2. NumbersOf(c, s) = <<>>
  BY <1>1, NumbersNone
<1> QED
  BY <1>2 DEF s

\* A message put into the channel comes last among those of its connection.
LEMMA NumbersAppend ==
    ASSUME NEW c \in Conns, NEW s \in Seq(Messages), NEW m \in Messages
    PROVE  NumbersOf(c, Append(s, m)) =
             IF m[1] = c THEN Append(NumbersOf(c, s), m[2]) ELSE NumbersOf(c, s)
<1> DEFINE t == Append(s, m)
           n == Len(s)
           K == Places(c, s)
           L == Places(c, t)
           N == NumbersOf(c, s)
           M == NumbersOf(c, t)
<1>1. /\ t \in Seq(Messages) /\ n \in Nat /\ DOMAIN s = 1..n /\ DOMAIN t = 1..(n + 1)
      /\ \A i \in 1..n : t[i] = s[i]
      /\ t[n + 1] = m
  OBVIOUS
<1>2. /\ K \subseteq 1..n /\ K \in SUBSET Nat /\ IsFiniteSet(K) /\ Cardinality(K) \in Nat
      /\ L \in SUBSET Nat /\ IsFiniteSet(L) /\ Cardinality(L) \in Nat
  BY <1>1, PlacesFinite
<1>3. /\ N \in Seq(Nat) /\ Len(N) = Cardinality(K)
      /\ \A j \in 1..Cardinality(K) : N[j] = s[Nth(K, j)][2]
      /\ M \in Seq(Nat) /\ Len(M) = Cardinality(L)
      /\ \A j \in 1..Cardinality(L) : M[j] = t[Nth(L, j)][2]
  BY <1>1, NumbersType
<1>4. L = IF m[1] = c THEN K \cup {n + 1} ELSE K
  <2>1. K = {i \in 1..n : s[i][1] = c} /\ L = {i \in 1..(n + 1) : t[i][1] = c}
    BY <1>1 DEF Places
  <2> HIDE DEF t, n, K, L
  <2> QED
    BY <1>1, <2>1
<1> HIDE DEF t, n, K, L, N, M
<1>5. CASE m[1] # c
  <2>1. \A j \in 1..Cardinality(K) : Nth(K, j) \in 1..n
    BY <1>2, NthExists
  <2>2. L = K
    BY <1>4, <1>5
  <2>3. ASSUME NEW j \in 1..Cardinality(K)
        PROVE  M[j] = N[j]
    <3>1. t[Nth(K, j)] = s[Nth(K, j)]
      BY <1>1, <2>1
    <3>2. M[j] = t[Nth(K, j)][2]
      BY <1>3, <2>2
    <3>3. N[j] = s[Nth(K, j)][2]
      BY <1>3
    <3> QED
      BY <3>1, <3>2, <3>3
  <2>4. Len(M) = Len(N) /\ M \in Seq(Nat) /\ N \in Seq(Nat) /\ Len(N) = Cardinality(K)
    BY <1>3, <2>2
  <2>5. M = N
    BY <2>3, <2>4, SeqEqual
  <2> QED
    BY <1>5, <2>5 DEF M, N, t
<1>6. CASE m[1] = c
  <2>1. L = K \cup {n + 1} /\ n + 1 \notin K
    BY <1>1, <1>2, <1>4, <1>6
  <2>2. Cardinality(L) = Cardinality(K) + 1
    BY <1>2, <2>1, FS_AddElement
  <2>3. ASSUME NEW i \in K
        PROVE  Rank(L, i) = Rank(K, i)
    <3>1. {k \in L : k < i} = {k \in K : k < i}
      BY <1>1, <1>2, <2>1
    <3> QED
      BY <3>1 DEF Rank
  <2>4. Rank(L, n + 1) = Cardinality(K)
    <3>1. \A k \in K : k < n + 1
      BY <1>1, <1>2
    <3>2. {k \in L : k < n + 1} = K
      BY <1>1, <2>1, <3>1
    <3> QED
      BY <3>2 DEF Rank
  <2>5. ASSUME NEW j \in 1..Cardinality(K)
        PROVE  M[j] = N[j]
    <3>1. Nth(K, j) \in K /\ Rank(K, Nth(K, j)) = j - 1
      BY <1>2, NthExists
    <3>2. Rank(L, Nth(K, j)) = j - 1 /\ Nth(K, j) \in L
      BY <2>1, <2>3, <3>1
    <3>3. Nth(L, (j - 1) + 1) = Nth(K, j)
      BY <1>2, <3>2, NthOfRank
    <3>4. (j - 1) + 1 = j /\ j \in 1..Cardinality(L)
      BY <1>2, <2>2
    <3>5. Nth(L, j) = Nth(K, j) /\ Nth(K, j) \in 1..n
      BY <1>2, <3>1, <3>3, <3>4
    <3>6. M[j] = t[Nth(L, j)][2] /\ N[j] = s[Nth(K, j)][2]
      BY <1>3, <3>4
    <3>7. t[Nth(K, j)] = s[Nth(K, j)]
      BY <1>1, <3>5
    <3> QED
      BY <3>5, <3>6, <3>7
  <2>6. M[Cardinality(K) + 1] = m[2]
    <3>1. Nth(L, Cardinality(K) + 1) = n + 1
      BY <1>2, <2>1, <2>4, NthOfRank
    <3>2. Cardinality(K) + 1 \in 1..Cardinality(L)
      BY <1>2, <2>2
    <3> QED
      BY <1>1, <1>3, <3>1, <3>2
  <2>7. m[2] \in Nat
    BY MessageFields
  <2>8. /\ Append(N, m[2]) \in Seq(Nat) /\ Len(Append(N, m[2])) = Cardinality(K) + 1
        /\ \A j \in 1..Cardinality(K) : Append(N, m[2])[j] = N[j]
        /\ Append(N, m[2])[Cardinality(K) + 1] = m[2]
    BY <1>2, <1>3, <2>7
  <2>9. ASSUME NEW j \in 1..Cardinality(L)
        PROVE  M[j] = Append(N, m[2])[j]
    <3>1. j \in 1..Cardinality(K) \/ j = Cardinality(K) + 1
      BY <1>2, <2>2
    <3> QED
      BY <2>5, <2>6, <2>8, <3>1
  <2>10. M = Append(N, m[2])
    BY <1>3, <2>2, <2>8, <2>9, SeqEqual
  <2> QED
    BY <1>6, <2>10 DEF M, N, t
<1> QED
  BY <1>5, <1>6

LEMMA ShiftedSet ==
    ASSUME NEW A \in SUBSET (Nat \ {0}), IsFiniteSet(A),
           NEW B, B = {k \in Nat : k + 1 \in A}
    PROVE  IsFiniteSet(B) /\ Cardinality(B) = Cardinality(A)
<1> DEFINE f == [a \in A |-> a - 1]
<1>1. f \in [A -> B]
  OBVIOUS
<1>2. \A a, b \in A : f[a] = f[b] => a = b
  OBVIOUS
<1>3. \A k \in B : \E a \in A : f[a] = k
  <2> SUFFICES ASSUME NEW k \in B
               PROVE  \E a \in A : a - 1 = k
    OBVIOUS
  <2>1. k + 1 \in A /\ (k + 1) - 1 = k
    OBVIOUS
  <2> QED
    BY <2>1
<1>4. f \in Injection(A, B) /\ f \in Surjection(A, B)
  BY <1>1, <1>2, <1>3, Fun_IsInj, Fun_IsSurj
<1> QED
  BY <1>4, FS_Surjection

\* Taking the first message out of the channel takes the first of its connection.
LEMMA NumbersTail ==
    ASSUME NEW c \in Conns, NEW s \in Seq(Messages), s # <<>>
    PROVE  /\ Head(s)[1] = c => /\ NumbersOf(c, s) # <<>>
                                /\ NumbersOf(c, Tail(s)) = Tail(NumbersOf(c, s))
           /\ Head(s)[1] # c => NumbersOf(c, Tail(s)) = NumbersOf(c, s)
<1> DEFINE t == Tail(s)
           n == Len(s)
           K == Places(c, s)
           L == Places(c, t)
           N == NumbersOf(c, s)
           M == NumbersOf(c, t)
           d == IF 1 \in K THEN 1 ELSE 0
<1>1. /\ t \in Seq(Messages) /\ n \in Nat \ {0} /\ DOMAIN s = 1..n /\ DOMAIN t = 1..(n - 1)
      /\ \A i \in 1..(n - 1) : t[i] = s[i + 1]
      /\ Head(s) = s[1]
  OBVIOUS
<1>2. /\ K \subseteq 1..n /\ K \in SUBSET Nat /\ IsFiniteSet(K) /\ Cardinality(K) \in Nat
      /\ L \in SUBSET Nat /\ IsFiniteSet(L) /\ Cardinality(L) \in Nat
  BY <1>1, PlacesFinite
<1>3. /\ N \in Seq(Nat) /\ Len(N) = Cardinality(K)
      /\ \A j \in 1..Cardinality(K) : N[j] = s[Nth(K, j)][2]
      /\ M \in Seq(Nat) /\ Len(M) = Cardinality(L)
      /\ \A j \in 1..Cardinality(L) : M[j] = t[Nth(L, j)][2]
  BY <1>1, NumbersType
<1>4. L = {k \in Nat : k + 1 \in K \ {1}} /\ (1 \in K <=> Head(s)[1] = c)
  <2>1. K = {i \in 1..n : s[i][1] = c} /\ L = {i \in 1..(n - 1) : t[i][1] = c}
    BY <1>1 DEF Places
  <2> HIDE DEF t, n, K, L
  <2> QED
    BY <1>1, <2>1
<1> HIDE DEF t, n, K, L, N, M
<1>5. Cardinality(K) = Cardinality(L) + d
  <2>1. IsFiniteSet(K \ {1}) /\ Cardinality(K \ {1}) = Cardinality(K) - d
    BY <1>2, FS_RemoveElement
  <2>2. K \ {1} \in SUBSET (Nat \ {0})
    BY <1>1, <1>2
  <2>3. Cardinality(L) = Cardinality(K \ {1})
    BY <1>4, <2>1, <2>2, ShiftedSet
  <2> QED
    BY <1>2, <2>1, <2>3
<1>6. ASSUME NEW i \in L
      PROVE  i + 1 \in K /\ i \in 1..(n - 1) /\ Rank(K, i + 1) = Rank(L, i) + d
  <2>1. i + 1 \in K /\ i \in 1..(n - 1)
    BY <1>1, <1>2, <1>4
  <2> DEFINE A == {k \in K : k < i + 1}
             B == {k \in L : k < i}
  <2>2. IsFiniteSet(A) /\ Cardinality(A) \in Nat
    <3>1. A \in SUBSET K
      OBVIOUS
    <3> QED
      BY <1>2, <3>1, FS_Subset, FS_CardinalityType
  <2>3. 1 \in A <=> 1 \in K
    BY <2>1
  <2>4. IsFiniteSet(A \ {1}) /\ Cardinality(A \ {1}) = Cardinality(A) - d
    <3> HIDE DEF A
    <3> QED
      BY <2>2, <2>3, FS_RemoveElement
  <2>5. A \ {1} \in SUBSET (Nat \ {0}) /\ B = {k \in Nat : k + 1 \in A \ {1}}
    <3>1. \A k \in K : k \in Nat /\ k # 0
      BY <1>1, <1>2
    <3>2. \A k \in Nat : k < i <=> k + 1 < i + 1
      BY <2>1
    <3>3. \A k \in Nat : k \in B <=> k + 1 \in A \ {1}
      BY <1>4, <3>2
    <3>4. B \subseteq Nat
      BY <1>2
    <3>5. A \subseteq K
      OBVIOUS
    <3> HIDE DEF A, B
    <3> QED
      BY <3>1, <3>3, <3>4, <3>5
  <2>6. Cardinality(B) = Cardinality(A \ {1})
    BY <2>4, <2>5, ShiftedSet
  <2>7. Rank(K, i + 1) = Cardinality(A) /\ Rank(L, i) = Cardinality(B)
    BY DEF Rank
  <2> HIDE DEF A, B
  <2> QED
    BY <2>1, <2>2, <2>4, <2>6, <2>7
<1>7. ASSUME NEW j \in 1..Cardinality(L)
      PROVE  M[j] = N[j + d] /\ j + d \in 1..Cardinality(K)
  <2>1. Nth(L, j) \in L /\ Rank(L, Nth(L, j)) = j - 1
    BY <1>2, NthExists
  <2>2. /\ Nth(L, j) + 1 \in K /\ Nth(L, j) \in 1..(n - 1)
        /\ Rank(K, Nth(L, j) + 1) = (j - 1) + d
    BY <1>6, <2>1
  <2>3. Nth(K, ((j - 1) + d) + 1) = Nth(L, j) + 1
    BY <1>2, <2>2, NthOfRank
  <2>4. ((j - 1) + d) + 1 = j + d /\ j + d \in 1..Cardinality(K)
    BY <1>2, <1>5
  <2>5. N[j + d] = s[Nth(L, j) + 1][2]
    BY <1>3, <2>3, <2>4
  <2> QED
    BY <1>1, <1>3, <2>2, <2>4, <2>5
<1>8. CASE Head(s)[1] = c
  <2>1. d = 1
    BY <1>4, <1>8
  <2>2. Len(N) = Cardinality(L) + 1 /\ N # <<>>
    BY <1>2, <1>3, <1>5, <2>1
  <2>3. /\ Tail(N) \in Seq(Nat) /\ Len(Tail(N)) = Cardinality(L)
        /\ \A j \in 1..Cardinality(L) : Tail(N)[j] = N[j + 1]
    BY <1>2, <1>3, <2>2
  <2>4. \A j \in 1..Cardinality(L) : M[j] = Tail(N)[j]
    BY <1>7, <2>1, <2>3
  <2>5. M = Tail(N)
    BY <1>3, <2>3, <2>4, SeqEqual
  <2> QED
    BY <1>8, <2>2, <2>5 DEF M, N, t
<1>9. CASE Head(s)[1] # c
  <2>1. d = 0
    BY <1>4, <1>9
  <2>2. Len(N) = Len(M) /\ \A j \in 1..Cardinality(L) : M[j] = N[j]
    BY <1>2, <1>3, <1>5, <1>7, <2>1
  <2>3. M = N
    BY <1>3, <2>2, SeqEqual
  <2> QED
    BY <1>9, <2>3 DEF M, N, t
<1> QED
  BY <1>8, <1>9


-----------------------------------------------------------------------------
(* What is on its way to a connection and from it.                         *)

LEMMA TailOfConcat ==
    ASSUME NEW S, NEW a \in Seq(S), a # <<>>, NEW b \in Seq(S)
    PROVE  a \o b # <<>> /\ Tail(a \o b) = Tail(a) \o b /\ a \o b \in Seq(S)
<1>1. Len(a) \in Nat \ {0} /\ Len(b) \in Nat /\ a \o b \in Seq(S)
      /\ Tail(a) \in Seq(S) /\ Len(Tail(a)) = Len(a) - 1
  BY ConcatProperties
<1>2. Len(a \o b) = Len(a) + Len(b) /\ Len(Tail(a) \o b) = Len(a) - 1 + Len(b)
      /\ Tail(a) \o b \in Seq(S)
  BY <1>1, ConcatProperties
<1>3. a \o b # <<>> /\ Tail(a \o b) \in Seq(S) /\ Len(Tail(a \o b)) = Len(a) + Len(b) - 1
  BY <1>1, <1>2
<1>4. ASSUME NEW i \in 1 .. Len(a) + Len(b) - 1
      PROVE  Tail(a \o b)[i] = (Tail(a) \o b)[i]
  <2>1. Tail(a \o b)[i] = (a \o b)[i + 1]
    BY <1>1, <1>2, <1>3
  <2>2. CASE i <= Len(a) - 1
    <3>1. (a \o b)[i + 1] = a[i + 1] /\ (Tail(a) \o b)[i] = Tail(a)[i] /\ Tail(a)[i] = a[i + 1]
      BY <1>1, <2>2
    <3> QED
      BY <2>1, <3>1
  <2>3. CASE i > Len(a) - 1
    <3>1. (a \o b)[i + 1] = b[i + 1 - Len(a)] /\ (Tail(a) \o b)[i] = b[i - (Len(a) - 1)]
      BY <1>1, <2>3
    <3>2. i + 1 - Len(a) = i - (Len(a) - 1)
      BY <1>1
    <3> QED
      BY <2>1, <3>1, <3>2
  <2> QED
    BY <1>1, <2>2, <2>3
<1> QED
  BY <1>1, <1>2, <1>3, <1>4, SeqEqual

LEMMA SecondsOf ==
    ASSUME NEW s \in Seq(Messages)
    PROVE  /\ Seconds(s) \in Seq(Nat)
           /\ \A m \in Messages : Seconds(Append(s, m)) = Append(Seconds(s), m[2])
           /\ s # <<>> => /\ Seconds(s) # <<>>
                          /\ Head(Seconds(s)) = Head(s)[2]
                          /\ Seconds(Tail(s)) = Tail(Seconds(s))
<1>1. Len(s) \in Nat /\ DOMAIN s = 1..Len(s) /\ \A i \in 1..Len(s) : s[i] \in Messages
  OBVIOUS
<1>2. \A i \in 1..Len(s) : s[i][2] \in Nat
  BY <1>1, MessageFields
<1>3. /\ Seconds(s) \in Seq(Nat) /\ Len(Seconds(s)) = Len(s)
      /\ \A i \in 1..Len(s) : Seconds(s)[i] = s[i][2]
  BY <1>1, <1>2 DEF Seconds
<1>4. ASSUME NEW m \in Messages
      PROVE  Seconds(Append(s, m)) = Append(Seconds(s), m[2])
  <2>1. /\ DOMAIN Append(s, m) = 1 .. Len(s) + 1
        /\ \A i \in 1..Len(s) : Append(s, m)[i] = s[i]
        /\ Append(s, m)[Len(s) + 1] = m
    BY <1>1
  <2>2. m[2] \in Nat
    BY MessageFields
  <2>3. Seconds(Append(s, m)) = [i \in 1 .. Len(s) + 1 |-> Append(s, m)[i][2]]
    BY <2>1 DEF Seconds
  <2>4. /\ Append(Seconds(s), m[2]) \in Seq(Nat)
        /\ Len(Append(Seconds(s), m[2])) = Len(s) + 1
        /\ \A i \in 1..Len(s) : Append(Seconds(s), m[2])[i] = s[i][2]
        /\ Append(Seconds(s), m[2])[Len(s) + 1] = m[2]
    BY <1>1, <1>3, <2>2
  <2>5. ASSUME NEW i \in 1 .. Len(s) + 1
        PROVE  Seconds(Append(s, m))[i] = Append(Seconds(s), m[2])[i]
    <3>1. i \in 1..Len(s) \/ i = Len(s) + 1
      BY <1>1
    <3> QED
      BY <2>1, <2>3, <2>4, <3>1
  <2>6. \A i \in 1 .. Len(s) + 1 : Append(Seconds(s), m[2])[i] \in Nat
    BY <1>1, <2>4
  <2>7. Seconds(Append(s, m)) \in Seq(Nat) /\ Len(Seconds(Append(s, m))) = Len(s) + 1
    <3>1. Len(s) + 1 \in Nat
      BY <1>1
    <3>2. \A i \in 1 .. Len(s) + 1 : Append(s, m)[i][2] \in Nat
      BY <2>3, <2>5, <2>6
    <3> QED
      BY <2>3, <3>1, <3>2
  <2> QED
    BY <2>4, <2>5, <2>7, SeqEqual
<1>5. ASSUME s # <<>>
      PROVE  /\ Seconds(s) # <<>>
             /\ Head(Seconds(s)) = Head(s)[2]
             /\ Seconds(Tail(s)) = Tail(Seconds(s))
  <2>1. /\ Len(s) # 0 /\ Head(s) = s[1]
        /\ DOMAIN Tail(s) = 1 .. Len(s) - 1
        /\ \A i \in 1 .. Len(s) - 1 : Tail(s)[i] = s[i + 1] /\ i + 1 \in 1..Len(s)
    BY <1>1, <1>5
  <2>2. /\ Seconds(s) # <<>> /\ Head(Seconds(s)) = Seconds(s)[1] /\ 1 \in 1..Len(s)
        /\ Tail(Seconds(s)) \in Seq(Nat) /\ Len(Tail(Seconds(s))) = Len(s) - 1
        /\ \A i \in 1 .. Len(s) - 1 : Tail(Seconds(s))[i] = Seconds(s)[i + 1]
    BY <1>1, <1>3, <2>1
  <2>3. Seconds(Tail(s)) = [i \in 1 .. Len(s) - 1 |-> Tail(s)[i][2]]
    BY <2>1 DEF Seconds
  <2>4. \A i \in 1 .. Len(s) - 1 : Tail(s)[i][2] \in Nat /\ Tail(Seconds(s))[i] = Tail(s)[i][2]
    BY <1>2, <1>3, <2>1, <2>2
  <2>5. Seconds(Tail(s)) \in Seq(Nat) /\ Len(Seconds(Tail(s))) = Len(s) - 1
    <3>1. Len(s) - 1 \in Nat /\ \A i \in 1 .. Len(s) - 1 : Tail(s)[i][2] \in Nat
      BY <1>1, <2>1, <2>4
    <3> QED
      BY <2>3, <3>1
  <2>6. Seconds(Tail(s)) = Tail(Seconds(s))
    BY <2>2, <2>3, <2>4, <2>5, SeqEqual
  <2> QED
    BY <1>3, <2>1, <2>2, <2>6
<1> QED
  BY <1>3, <1>4, <1>5

LEMMA NumbersOfPackets ==
    ASSUME NEW s \in Seq(Packets)
    PROVE  /\ Numbers(s) \in Seq(Nat) /\ Len(Numbers(s)) = Len(s)
           /\ \A i \in 1..Len(s) : Numbers(s)[i] = s[i].n
<1>1. Len(s) \in Nat /\ DOMAIN s = 1..Len(s) /\ \A i \in 1..Len(s) : s[i] \in Packets
  OBVIOUS
<1>2. \A i \in 1..Len(s) : s[i].n \in Nat
  BY <1>1, ClientAssumption DEF Packets
<1> QED
  BY <1>1, <1>2 DEF Numbers

LEMMA NumbersAppended ==
    ASSUME NEW s \in Seq(Packets), NEW n \in Nat, News(n) \in Packets
    PROVE  Numbers(Append(s, News(n))) = Append(Numbers(s), n)
<1> DEFINE t == Append(s, News(n))
<1>1. /\ t \in Seq(Packets) /\ Len(t) = Len(s) + 1 /\ Len(s) \in Nat
      /\ \A i \in 1..Len(s) : t[i] = s[i]
      /\ t[Len(s) + 1] = News(n)
  OBVIOUS
<1> HIDE DEF t
<1>2. News(n).n = n
  BY DEF News
<1>3. /\ Numbers(t) \in Seq(Nat) /\ Len(Numbers(t)) = Len(s) + 1
      /\ \A i \in 1 .. Len(s) + 1 : Numbers(t)[i] = t[i].n
  BY <1>1, NumbersOfPackets
<1>4. /\ Append(Numbers(s), n) \in Seq(Nat) /\ Len(Append(Numbers(s), n)) = Len(s) + 1
      /\ \A i \in 1..Len(s) : Append(Numbers(s), n)[i] = s[i].n
      /\ Append(Numbers(s), n)[Len(s) + 1] = n
  <2>1. /\ Numbers(s) \in Seq(Nat) /\ Len(Numbers(s)) = Len(s)
        /\ \A i \in 1..Len(s) : Numbers(s)[i] = s[i].n
    BY NumbersOfPackets
  <2> QED
    BY <1>1, <2>1
<1>5. ASSUME NEW i \in 1 .. Len(s) + 1
      PROVE  Numbers(t)[i] = Append(Numbers(s), n)[i]
  <2>1. i \in 1..Len(s) \/ i = Len(s) + 1
    BY <1>1
  <2> QED
    BY <1>1, <1>2, <1>3, <1>4, <2>1
<1>6. Numbers(t) = Append(Numbers(s), n)
  BY <1>3, <1>4, <1>5, SeqEqual
<1> QED
  BY <1>6 DEF t

LEMMA NumbersOfTail ==
    ASSUME NEW s \in Seq(Packets), s # <<>>
    PROVE  Numbers(s) # <<>> /\ Numbers(Tail(s)) = Tail(Numbers(s))
<1> DEFINE t == Tail(s)
<1>1. /\ t \in Seq(Packets) /\ Len(t) = Len(s) - 1 /\ Len(s) \in Nat \ {0}
      /\ \A i \in 1 .. Len(s) - 1 : t[i] = s[i + 1] /\ i + 1 \in 1..Len(s)
  OBVIOUS
<1> HIDE DEF t
<1>2. /\ Numbers(t) \in Seq(Nat) /\ Len(Numbers(t)) = Len(s) - 1
      /\ \A i \in 1 .. Len(s) - 1 : Numbers(t)[i] = t[i].n
  BY <1>1, NumbersOfPackets
<1>3. /\ Numbers(s) \in Seq(Nat) /\ Len(Numbers(s)) = Len(s)
      /\ \A i \in 1..Len(s) : Numbers(s)[i] = s[i].n
  BY NumbersOfPackets
<1>4. /\ Numbers(s) # <<>> /\ Tail(Numbers(s)) \in Seq(Nat)
      /\ Len(Tail(Numbers(s))) = Len(s) - 1
      /\ \A i \in 1 .. Len(s) - 1 : Tail(Numbers(s))[i] = Numbers(s)[i + 1]
  BY <1>1, <1>3
<1>5. \A i \in 1 .. Len(s) - 1 : Numbers(t)[i] = Tail(Numbers(s))[i]
  BY <1>1, <1>2, <1>3, <1>4
<1>6. Numbers(t) = Tail(Numbers(s))
  BY <1>2, <1>4, <1>5, SeqEqual
<1> QED
  BY <1>4, <1>6 DEF t

\* Posts are added to and taken from a connection's to.
LEMMA NewsAppended ==
    ASSUME NEW s \in Seq(Packets), NEW n \in Nat, News(n) \in Packets
    PROVE  /\ NewsIn(s) \in Seq(Nat)
           /\ NewsIn(Append(s, News(n))) = Append(NewsIn(s), n)
<1> DEFINE t == Append(s, News(n))
<1>1. News(n).kind # "Full"
  BY DEF News
<1>2. t # <<>> /\ Head(t) = IF s = <<>> THEN News(n) ELSE Head(s)
  <2>1. /\ t \in Seq(Packets) /\ Len(t) = Len(s) + 1 /\ Len(s) \in Nat
        /\ \A i \in 1..Len(s) : t[i] = s[i]
        /\ t[Len(s) + 1] = News(n)
    OBVIOUS
  <2> HIDE DEF t
  <2>2. t # <<>> /\ Head(t) = t[1]
    BY <2>1
  <2>3. CASE s = <<>>
    BY <2>1, <2>2, <2>3
  <2>4. CASE s # <<>>
    <3>1. 1 \in 1..Len(s) /\ Head(s) = s[1]
      BY <2>4
    <3> QED
      BY <2>1, <2>2, <2>4, <3>1
  <2> QED
    BY <2>2, <2>3, <2>4
<1>3. CASE s # <<>> /\ Head(s).kind = "Full"
  <2>1. Tail(s) \in Seq(Packets) /\ Tail(t) = Append(Tail(s), News(n))
    BY <1>3
  <2>2. NewsIn(s) = Numbers(Tail(s)) /\ NewsIn(t) = Numbers(Tail(t))
    BY <1>2, <1>3 DEF NewsIn
  <2> QED
    BY <2>1, <2>2, NumbersOfPackets, NumbersAppended
<1>4. CASE ~ (s # <<>> /\ Head(s).kind = "Full")
  <2>1. NewsIn(s) = Numbers(s) /\ NewsIn(t) = Numbers(t)
    BY <1>1, <1>2, <1>4 DEF NewsIn
  <2> QED
    BY <2>1, NumbersOfPackets, NumbersAppended
<1> QED
  BY <1>3, <1>4

LEMMA NewsOfTail ==
    ASSUME NEW s \in Seq(Packets), s # <<>>,
           \A i \in DOMAIN s : i > 1 => s[i].kind = "News"
    PROVE  /\ Head(s).kind = "Full" => NewsIn(Tail(s)) = NewsIn(s)
           /\ Head(s).kind # "Full" => /\ NewsIn(s) # <<>>
                                       /\ NewsIn(Tail(s)) = Tail(NewsIn(s))
<1>1. NewsIn(Tail(s)) = Numbers(Tail(s))
  <2>1. ASSUME Tail(s) # <<>>
        PROVE  Head(Tail(s)).kind = "News"
    <3>1. 2 \in DOMAIN s /\ Head(Tail(s)) = s[2]
      BY <2>1
    <3> QED
      BY <3>1
  <2> QED
    BY <2>1 DEF NewsIn
<1>2. CASE Head(s).kind = "Full"
  BY <1>1, <1>2 DEF NewsIn
<1>3. CASE Head(s).kind # "Full"
  <2>1. NewsIn(s) = Numbers(s)
    BY <1>3 DEF NewsIn
  <2> QED
    BY <1>1, <1>3, <2>1, NumbersOfTail
<1> QED
  BY <1>2, <1>3

\* Types of what the mapping shows.
LEMMA MappedTypes ==
    ASSUME ClientInv, NEW c \in Conns
    PROVE  /\ NewsIn(cto[c]) \in Seq(Nat)
           /\ Behind(c) \in Seq(Nat) /\ to \in Seq(Nat)
           /\ NumbersOf(c, from) \in Seq(Nat)
           /\ HeldOf(c) \in Seq(Nat)
           /\ Seconds(cfrom[c]) \in Seq(Nat)
<1>1. ClientTypes /\ Posting
  BY DEF ClientInv
<1>2. NewsIn(cto[c]) \in Seq(Nat)
  <2>1. cto[c] \in Seq(Packets)
    BY <1>1 DEF ClientTypes
  <2>2. 0 \in 0..MaxPosts
    BY ClientAssumption
  <2>3. 0 \in Nat /\ News(0) \in Packets
    BY <2>2, PacketType
  <2> QED
    BY <2>1, <2>3, NewsAppended
<1>3. to \in Seq(Nat)
  <2>1. to \in Seq(1..MaxPosts) /\ 1..MaxPosts \subseteq Nat
    BY <1>1 DEF ClientTypes
  <2> QED
    BY ONLY <2>1, SeqOfSubset
<1>4. Behind(c) \in Seq(Nat)
  <2>1. CASE c \in Range(rest)
    <3>1. current \in Nat
      <4>1. rest # <<>>
        BY <2>1 DEF Range
      <4> QED
        BY <1>1, <4>1 DEF Posting
    <3> QED
      BY <1>3, <2>1, <3>1 DEF Behind
  <2>2. CASE c \notin Range(rest)
    BY <1>3, <2>2 DEF Behind
  <2> QED
    BY <2>1, <2>2
<1>5. NumbersOf(c, from) \in Seq(Nat) /\ Seconds(cfrom[c]) \in Seq(Nat)
  BY <1>1, NumbersType, SecondsOf DEF ClientTypes
<1>6. HeldOf(c) \in Seq(Nat)
  <2>1. held # None => held[2] \in Nat
    BY <1>1, MessageFields DEF ClientTypes
  <2> QED
    BY <2>1 DEF HeldOf
<1> QED
  BY <1>2, <1>3, <1>4, <1>5, <1>6


-----------------------------------------------------------------------------
(* Every step is a step of the link, or none.                              *)

LinkSame ==
    UNCHANGED << [c \in Conns |-> Place(c)], sent, [c \in Conns |-> Up(c)],
                 posted, [c \in Conns |-> Down(c)] >>

LEMMA SameIsStutter ==
    ASSUME LinkSame
    PROVE  UNCHANGED Link!linkVars
BY DEF LinkSame, Link!linkVars

LEMMA MappedKept ==
    /\ UNCHANGED <<members, done>> => \A c \in Conns : Place(c)' = Place(c)
    /\ UNCHANGED <<from, held, cfrom>> => \A c \in Conns : Up(c)' = Up(c)
    /\ UNCHANGED <<members, cto, to, rest, current>> => \A c \in Conns : Down(c)' = Down(c)
<1>1. ASSUME UNCHANGED <<members, done>>
      PROVE  \A c \in Conns : Place(c)' = Place(c)
  BY <1>1 DEF Place
<1>2. ASSUME UNCHANGED <<from, held, cfrom>>
      PROVE  \A c \in Conns : Up(c)' = Up(c)
  BY <1>2 DEF Up, HeldOf
<1>3. ASSUME UNCHANGED <<members, cto, to, rest, current>>
      PROVE  \A c \in Conns : Down(c)' = Down(c)
  BY <1>3 DEF Down, Unheard, Behind
<1> QED
  BY <1>1, <1>2, <1>3

LEMMA SamePointwise ==
    ASSUME sent' = sent, posted' = posted,
           \A c \in Conns : Place(c)' = Place(c),
           \A c \in Conns : Up(c)' = Up(c),
           \A c \in Conns : Down(c)' = Down(c)
    PROVE  LinkSame
BY DEF LinkSame

\* A message arrives on a socket.
LEMMA LinkSubmit ==
    ASSUME ClientInv, NEW c \in Conns, ReadSocket(c)
    PROVE  Link!Submit(c)
<1> DEFINE m == <<c, sent[c] + 1>>
           q == cfrom[c]
<1>1. /\ c \notin closed
      /\ sent' = [sent EXCEPT ![c] = @ + 1]
      /\ cfrom' = [cfrom EXCEPT ![c] = Append(@, m)]
      /\ UNCHANGED <<members, done, from, held, cto, to, rest, current, posted>>
  BY DEF ReadSocket, Reading, reader, sender, owner
<1>2. ClientTypes /\ Counting
  BY DEF ClientInv
<1>3. m \in Messages /\ m[2] = sent[c] + 1 /\ m[2] \in Nat
  <2>1. sent[c] \in Nat /\ sent[c] + 1 <= MaxSent[c] /\ MaxSent[c] \in Nat
    <3>1. sent[c] \in Nat
      BY <1>2 DEF ClientTypes
    <3>2. sent[c] < MaxSent[c]
      BY DEF ReadSocket
    <3>3. MaxSent[c] \in Nat
      BY ClientAssumption
    <3> QED
      BY <3>1, <3>2, <3>3
  <2> QED
    BY <2>1, MessageType
<1>4. Place(c) # "left"
  BY <1>1, <1>2 DEF Place, Counting
<1>5. q \in Seq(Messages) /\ cfrom'[c] = Append(q, m) /\ \A d \in Conns : d # c => cfrom'[d] = cfrom[d]
  <2>1. cfrom \in [Conns -> Seq(Messages)]
    BY <1>2 DEF ClientTypes
  <2> DEFINE x == Append(q, m)
  <2>2. cfrom' = [cfrom EXCEPT ![c] = x]
    BY <1>1
  <2> HIDE DEF x
  <2>3. cfrom'[c] = x /\ \A d \in Conns : d # c => cfrom'[d] = cfrom[d]
    BY <2>1, <2>2
  <2> QED
    BY <2>1, <2>3 DEF x
<1>6. Up(c)' = Append(Up(c), sent[c] + 1)
  <2> DEFINE a == NumbersOf(c, from) \o HeldOf(c)
             b == Seconds(q)
             x == sent[c] + 1
  <2>1. a \in Seq(Nat) /\ b \in Seq(Nat) /\ x \in Nat
    BY <1>3, MappedTypes, ConcatProperties
  <2>2. Up(c) = a \o b
    BY DEF Up
  <2>3. Seconds(cfrom'[c]) = Append(b, x)
    BY <1>3, <1>5, SecondsOf
  <2>4. Up(c)' = a \o Append(b, x)
    BY <1>1, <2>3 DEF Up, HeldOf
  <2> HIDE DEF a, b, x
  <2>5. a \o Append(b, x) = Append(a \o b, x)
    BY ONLY <2>1, StreamGrows
  <2> QED
    BY <2>2, <2>4, <2>5 DEF x
<1>7. \A d \in Conns : d # c => Up(d)' = Up(d)
  BY <1>1, <1>5 DEF Up, HeldOf
<1>8. /\ \A d \in Conns : Place(d)' = Place(d)
      /\ \A d \in Conns : Down(d)' = Down(d)
  BY <1>1, MappedKept
<1> HIDE DEF m, q
<1> QED
  BY <1>1, <1>4, <1>6, <1>7, <1>8 DEF Link!Submit

\* The reader takes a message and puts it into from.
LEMMA LinkReadMessage ==
    ASSUME ClientInv, NEW c \in Conns, ReadMessage(c)
    PROVE  LinkSame
<1> DEFINE q == cfrom[c]
<1>1. /\ q # <<>> /\ held = None /\ held' = Head(q)
      /\ cfrom' = [cfrom EXCEPT ![c] = Tail(@)]
      /\ UNCHANGED <<members, done, from, cto, to, rest, current, posted, sent>>
  BY DEF ReadMessage, Selecting, sender, owner
<1>2. ClientTypes /\ Origins
  BY DEF ClientInv
<1>3. q \in Seq(Messages) /\ cfrom'[c] = Tail(q) /\ \A d \in Conns : d # c => cfrom'[d] = cfrom[d]
  BY <1>1, <1>2 DEF ClientTypes
<1>4. Head(q)[1] = c /\ Head(q) \in Messages /\ Head(q) # None /\ Head(q)[2] \in Nat
  <2>1. 1 \in DOMAIN q /\ Head(q) = q[1] /\ q[1] \in Messages
    BY <1>1, <1>3
  <2> QED
    BY <1>2, <2>1, MessageFields DEF Origins
<1>5. Up(c)' = Up(c)
  <2> DEFINE a == NumbersOf(c, from)
             b == Seconds(q)
  <2>1. a \in Seq(Nat) /\ b \in Seq(Nat) /\ b # <<>> /\ Head(b) = Head(q)[2]
        /\ Seconds(Tail(q)) = Tail(b)
    BY <1>1, <1>3, MappedTypes, SecondsOf
  <2>2. Up(c) = (a \o <<>>) \o b
    BY <1>1 DEF Up, HeldOf
  <2>3. Up(c)' = (a \o <<Head(b)>>) \o Tail(b)
    BY <1>1, <1>3, <1>4, <2>1 DEF Up, HeldOf
  <2> HIDE DEF a, b
  <2>4. a \o <<>> = a /\ a \o <<Head(b)>> = Append(a, Head(b))
    BY <2>1, ConcatEmptySeq, AppendIsConcat, HeadTailProperties
  <2>5. Append(a, Head(b)) \o Tail(b) = a \o b
    BY ONLY <2>1, StreamMoves
  <2> QED
    BY <2>2, <2>3, <2>4, <2>5
<1>6. \A d \in Conns : d # c => Up(d)' = Up(d)
  BY <1>1, <1>3, <1>4 DEF Up, HeldOf
<1>7. /\ \A d \in Conns : Place(d)' = Place(d)
      /\ \A d \in Conns : Down(d)' = Down(d)
  BY <1>1, MappedKept
<1> QED
  BY <1>1, <1>5, <1>6, <1>7, SamePointwise

LEMMA LinkExpose ==
    ASSUME ClientInv, Expose
    PROVE  LinkSame
<1>1. /\ held # None /\ held' = None /\ from' = Append(from, held)
      /\ UNCHANGED <<members, done, cfrom, cto, to, rest, current, posted, sent>>
  BY DEF Expose, web, sender, owner
<1>2. ClientTypes
  BY DEF ClientInv
<1>3. held \in Messages /\ from \in Seq(Messages) /\ held[2] \in Nat
  BY <1>1, <1>2, MessageFields DEF ClientTypes
<1>4. ASSUME NEW d \in Conns
      PROVE  Up(d)' = Up(d)
  <2> DEFINE a == NumbersOf(d, from)
             b == Seconds(cfrom[d])
  <2>1. a \in Seq(Nat) /\ b \in Seq(Nat)
    BY MappedTypes
  <2>2. NumbersOf(d, from') = IF held[1] = d THEN Append(a, held[2]) ELSE a
    BY <1>1, <1>3, NumbersAppend
  <2>3. Up(d)' = (NumbersOf(d, from') \o <<>>) \o b
    BY <1>1 DEF Up, HeldOf
  <2>4. Up(d) = (a \o (IF held[1] = d THEN <<held[2]>> ELSE <<>>)) \o b
    BY <1>1 DEF Up, HeldOf
  <2> HIDE DEF a, b
  <2>5. NumbersOf(d, from') \o <<>> = a \o (IF held[1] = d THEN <<held[2]>> ELSE <<>>)
    <3>1. CASE held[1] = d
      <4>1. Append(a, held[2]) \in Seq(Nat) /\ Append(a, held[2]) = a \o <<held[2]>>
        BY <1>3, <2>1, AppendIsConcat
      <4> QED
        BY <2>2, <3>1, <4>1, ConcatEmptySeq
    <3>2. CASE held[1] # d
      BY <2>2, <3>2
    <3> QED
      BY <3>1, <3>2
  <2> QED
    BY <2>3, <2>4, <2>5
<1>5. /\ \A d \in Conns : Place(d)' = Place(d)
      /\ \A d \in Conns : Down(d)' = Down(d)
  BY <1>1, MappedKept
<1> QED
  BY <1>1, <1>4, <1>5, SamePointwise

\* The owner reads a message.
LEMMA LinkDeliver ==
    ASSUME ClientInv, OwnerRead
    PROVE  \E c \in Conns : Link!Deliver(c)
<1>1. /\ from # <<>> /\ from' = Tail(from)
      /\ UNCHANGED <<members, done, held, cfrom, cto, to, rest, current, posted, sent>>
  BY DEF OwnerRead, web, sender, owner
<1>2. ClientTypes
  BY DEF ClientInv
<1>3. from \in Seq(Messages) /\ Head(from) \in Messages
  BY <1>1, <1>2 DEF ClientTypes
<1>4. PICK c \in Conns : c = Head(from)[1]
  BY <1>3, MessageFields
<1>5. Up(c) # <<>> /\ Up(c)' = Tail(Up(c))
  <2> DEFINE a == NumbersOf(c, from)
             h == HeldOf(c)
             b == Seconds(cfrom[c])
  <2>1. a \in Seq(Nat) /\ h \in Seq(Nat) /\ b \in Seq(Nat)
    BY MappedTypes
  <2>2. a # <<>> /\ NumbersOf(c, from') = Tail(a)
    BY <1>1, <1>3, <1>4, NumbersTail
  <2>3. Up(c) = (a \o h) \o b /\ Up(c)' = (Tail(a) \o h) \o b
    BY <1>1, <2>2 DEF Up, HeldOf
  <2> HIDE DEF a, h, b
  <2>4. a \o h # <<>> /\ Tail(a \o h) = Tail(a) \o h /\ a \o h \in Seq(Nat)
    BY ONLY <2>1, <2>2, TailOfConcat
  <2> DEFINE x == a \o h
  <2>5. x # <<>> /\ x \in Seq(Nat)
    BY <2>4
  <2> HIDE DEF x
  <2>6. x \o b # <<>> /\ Tail(x \o b) = Tail(x) \o b
    BY ONLY <2>1, <2>5, TailOfConcat
  <2> QED
    BY <2>3, <2>4, <2>6 DEF x
<1>6. \A d \in Conns : d # c => Up(d)' = Up(d)
  <2>1. ASSUME NEW d \in Conns, d # c
        PROVE  NumbersOf(d, from') = NumbersOf(d, from)
    BY <1>1, <1>3, <1>4, <2>1, NumbersTail
  <2> QED
    BY <1>1, <2>1 DEF Up, HeldOf
<1>7. /\ \A d \in Conns : Place(d)' = Place(d)
      /\ \A d \in Conns : Down(d)' = Down(d)
  BY <1>1, MappedKept
<1>8. Link!Deliver(c)
  BY <1>1, <1>5, <1>6, <1>7 DEF Link!Deliver
<1> QED
  BY <1>8

\* A connection joins.
LEMMA LinkEnter ==
    ASSUME ClientInv, ReadJoin
    PROVE  \E c \in Conns : Link!Enter(c)
<1>1. ClientTypes /\ Membership /\ Posting /\ Handing /\ Origins
  BY DEF ClientInv
<1>2. PICK c \in Conns : c = joining
  BY <1>1, JoinedMember
<1>3. /\ c \notin Range(members) /\ c \notin done /\ c # None
      /\ Range(members') = Range(members) \cup {c}
      /\ UNCHANGED <<done, cto, to, rest, current, posted, cfrom>>
  BY <1>1, <1>2, JoinedMember DEF Membership, ReadJoin
<1>4. held = None /\ UNCHANGED <<held, sent>>
  BY DEF ReadJoin, Selecting, web
<1>5. from' = IF members = <<>> THEN <<>> ELSE from
  BY DEF ReadJoin, Reopened
<1>6. Place(c) = "outside" /\ Place(c)' = "inside" /\ \A d \in Conns : d # c => Place(d)' = Place(d)
  BY <1>3 DEF Place
<1>7. \A d \in Conns : d # c => Down(d)' = Down(d)
  BY <1>3 DEF Down, Unheard, Behind
<1>8. /\ Taken + 1 \in 1..(posted + 1)
      /\ Down(c)' = [i \in 1..(posted + 1 - (Taken + 1)) |-> (Taken + 1) + i - 1]
  <2>1. NewsIn(cto[c]) = <<>>
    <3>1. cto[c] \in {<<>>, <<Snapshot(posted)>>}
      BY <1>1, <1>2, <1>3 DEF Handing
    <3>2. CASE cto[c] = <<>>
      BY <3>2 DEF NewsIn, Numbers
    <3>3. CASE cto[c] = <<Snapshot(posted)>>
      <4>1. Head(cto[c]).kind = "Full" /\ cto[c] # <<>> /\ Tail(cto[c]) = <<>>
        BY <3>3 DEF Snapshot
      <4> QED
        BY <4>1 DEF NewsIn, Numbers
    <3> QED
      BY <3>1, <3>2, <3>3
  <2>2. c \notin Range(rest)
    BY <1>1, <1>3 DEF Posting
  <2>3. to \in Seq(Nat)
    BY MappedTypes
  <2>4. Down(c)' = <<>> \o (<<>> \o to)
    BY <1>3, <2>1, <2>2 DEF Down, Unheard, Behind
  <2>5. Down(c)' = to
    BY <2>3, <2>4, ConcatEmptySeq
  <2>6. /\ Taken \in Nat /\ posted \in Nat /\ Len(to) = posted - Taken /\ Len(to) \in Nat
        /\ \A i \in 1..Len(to) : to[i] = Taken + i
    <3>1. to \in Seq(1..MaxPosts) /\ Len(to) \in Nat
      BY <1>1 DEF ClientTypes
    <3>2. Taken \in Nat /\ posted \in Nat
      BY <1>1 DEF ClientTypes, Posting
    <3>3. Len(to) = posted - Taken
      BY <3>1, <3>2 DEF Taken
    <3>4. \A i \in 1..Len(to) : to[i] = Taken + i
      BY <1>1, <3>1 DEF Posting
    <3> QED
      BY <3>1, <3>2, <3>3, <3>4
  <2>7. posted + 1 - (Taken + 1) = Len(to) /\ Taken + 1 \in 1..(posted + 1)
    BY <2>6
  <2>8. to = [i \in 1..Len(to) |-> to[i]]
    BY <2>3
  <2>9. \A i \in 1..Len(to) : to[i] = (Taken + 1) + i - 1
    BY <2>6
  <2>10. to = [i \in 1..Len(to) |-> (Taken + 1) + i - 1]
    BY <2>8, <2>9
  <2> QED
    BY <2>5, <2>7, <2>10
<1>9. ASSUME NEW d \in Conns
      PROVE  Up(d)' = IF Link!Inside = {} /\ Place(d) = "left" THEN <<>> ELSE Up(d)
  <2>1. Link!Inside = Range(members)
    <3>1. Link!Inside = {e \in Conns : Place(e) = "inside"}
      BY DEF Link!Inside
    <3>2. \A e \in Conns : Place(e) = "inside" <=> e \in Range(members)
      BY DEF Place
    <3> QED
      BY <1>1, <3>1, <3>2, MemberTypes
  <2>2. CASE members # <<>>
    <3>1. Range(members) # {}
      <4>1. members \in Seq(Conns) /\ members # <<>>
        BY <1>1, <2>2 DEF ClientTypes
      <4>2. 1 \in DOMAIN members
        BY <4>1
      <4> QED
        BY <4>2 DEF Range
    <3>2. Up(d)' = Up(d)
      BY <1>3, <1>4, <1>5, <2>2, MappedKept
    <3> QED
      BY <2>1, <3>1, <3>2
  <2>3. CASE members = <<>>
    <3>1. Range(members) = {}
      BY <2>3 DEF Range
    <3>2. from' = <<>> /\ <<>> \in Seq(Messages) /\ from \in Seq(Messages)
      BY <1>1, <1>5, <2>3 DEF ClientTypes
    <3>3. NumbersOf(d, from') = <<>>
      <4>1. NumbersOf(d, <<>>) = <<>>
        BY NumbersEmpty
      <4> QED
        BY <3>2, <4>1
    <3>4. HeldOf(d) = <<>> /\ HeldOf(d)' = <<>>
      BY <1>4 DEF HeldOf
    <3>5. Up(d)' = Seconds(cfrom[d])
      <4>1. Seconds(cfrom[d]) \in Seq(Nat)
        BY MappedTypes
      <4>2. Up(d)' = (<<>> \o <<>>) \o Seconds(cfrom[d])
        BY <1>3, <3>3, <3>4 DEF Up
      <4> QED
        BY <4>1, <4>2, ConcatEmptySeq
    <3>6. CASE d \in done
      <4>1. cfrom[d] = <<>> /\ Place(d) = "left"
        BY <1>1, <3>1, <3>6 DEF Membership, Place
      <4>2. Seconds(<<>>) = <<>>
        BY DEF Seconds
      <4> QED
        BY <2>1, <3>1, <3>5, <4>1, <4>2
    <3>7. CASE d \notin done
      <4>1. Place(d) # "left"
        BY <3>7 DEF Place
      <4>2. \A i \in DOMAIN from : from[i][1] # d
        BY <1>1, <3>1, <3>7 DEF Origins
      <4>3. NumbersOf(d, from) = <<>>
        BY <3>2, <4>2, NumbersNone
      <4>4. Up(d) = (<<>> \o <<>>) \o Seconds(cfrom[d])
        BY <3>4, <4>3 DEF Up
      <4>5. Up(d) = Seconds(cfrom[d])
        BY <4>4, MappedTypes, ConcatEmptySeq
      <4> QED
        BY <3>5, <4>1, <4>5
    <3> QED
      BY <3>6, <3>7
  <2> QED
    BY <2>2, <2>3
<1> DEFINE place == [d \in Conns |-> Place(d)]
           up == [d \in Conns |-> Up(d)]
           down == [d \in Conns |-> Down(d)]
<1>10. place[c] = "outside" /\ place' = [place EXCEPT ![c] = "inside"]
  BY <1>6
<1>11. \E first \in 1..(posted + 1) :
          down' = [down EXCEPT ![c] = [i \in 1..(posted + 1 - first) |-> first + i - 1]]
  <2>1. down' = [down EXCEPT ![c] = [i \in 1..(posted + 1 - (Taken + 1)) |-> (Taken + 1) + i - 1]]
    BY <1>7, <1>8
  <2> QED
    BY <1>8, <2>1
<1>12. up' = [d \in Conns |->
                IF Link!Inside = {} /\ place[d] = "left" THEN <<>> ELSE up[d]]
  BY <1>9
<1>13. Link!Enter(c)
  BY <1>3, <1>4, <1>10, <1>11, <1>12 DEF Link!Enter
<1> QED
  BY <1>13

\* A connection leaves.
LEMMA LinkLeave ==
    ASSUME ClientInv, NEW c \in Conns, ReadEnd(c)
    PROVE  Link!Leave(c)
<1>1. ClientTypes /\ Counting /\ Membership
  BY DEF ClientInv
<1>2. c \in Range(members) /\ c \in closed
  BY DEF ReadEnd
<1>3. counted[c] # 0
  BY <1>1, <1>2 DEF Counting, Membership
<1>4. /\ done' = done \cup {c} /\ Range(members') = Range(members) \ {c}
      /\ UNCHANGED <<cto, to, rest, current, posted, cfrom>>
  BY <1>1, <1>3, EndedMember
<1>5. UNCHANGED <<sent, from, held>>
  BY DEF ReadEnd
<1>6. Place(c) = "inside" /\ Place(c)' = "left" /\ \A d \in Conns : d # c => Place(d)' = Place(d)
  BY <1>2, <1>4 DEF Place
<1>7. Down(c)' = <<>> /\ \A d \in Conns : d # c => Down(d)' = Down(d)
  BY <1>4 DEF Down, Unheard, Behind
<1>8. \A d \in Conns : Up(d)' = Up(d)
  BY <1>4, <1>5, MappedKept
<1> QED
  BY <1>4, <1>5, <1>6, <1>7, <1>8 DEF Link!Leave, Link!Inside


\* A message is written to a socket.
LEMMA LinkReceive ==
    ASSUME ClientInv, NEW c \in Conns, WriteSocket(c)
    PROVE  Link!Receive(c) \/ LinkSame
<1>1. ClientTypes /\ Handing
  BY DEF ClientInv
<1>2. /\ cto[c] # <<>> /\ cto' = [cto EXCEPT ![c] = Tail(@)]
      /\ UNCHANGED <<sent, members, done, from, held, cfrom, to, rest, current, posted>>
  BY DEF WriteSocket, reader, sender, owner
<1>3. cto[c] \in Seq(Packets) /\ cto'[c] = Tail(cto[c]) /\ \A d \in Conns : d # c => cto'[d] = cto[d]
  BY <1>1, <1>2 DEF ClientTypes
<1>4. /\ \A d \in Conns : Place(d)' = Place(d)
      /\ \A d \in Conns : Up(d)' = Up(d)
  BY <1>2, MappedKept
<1>5. \A d \in Conns : d # c => Down(d)' = Down(d)
  BY <1>2, <1>3 DEF Down, Unheard, Behind
<1> DEFINE a == NewsIn(cto[c])
           b == Behind(c)
<1>6. a \in Seq(Nat) /\ b \in Seq(Nat)
  BY MappedTypes
<1>7. b' = b
  BY <1>2 DEF Behind
<1>8. /\ Head(cto[c]).kind = "Full" => NewsIn(Tail(cto[c])) = a
      /\ Head(cto[c]).kind # "Full" => a # <<>> /\ NewsIn(Tail(cto[c])) = Tail(a)
  <2>1. \A i \in DOMAIN cto[c] : i > 1 => cto[c][i].kind = "News"
    BY <1>1 DEF Handing
  <2> QED
    BY <1>2, <1>3, <2>1, NewsOfTail
<1>9. a' = NewsIn(Tail(cto[c]))
  BY <1>3
<1> HIDE DEF a, b
<1>10. /\ c \notin Range(members) => Down(c) = <<>> /\ Down(c)' = <<>>
       /\ c \in Range(members) => Down(c) = a \o b /\ Down(c)' = a' \o b'
  BY <1>2 DEF Down, Unheard, a, b
<1>11. CASE c \notin Range(members) \/ Head(cto[c]).kind = "Full"
  <2>1. Down(c)' = Down(c)
    <3>1. CASE c \notin Range(members)
      BY <1>10, <3>1
    <3>2. CASE c \in Range(members) /\ Head(cto[c]).kind = "Full"
      <4>1. a' = a
        BY <1>8, <1>9, <3>2
      <4> QED
        BY <1>7, <1>10, <3>2, <4>1
    <3> QED
      BY <1>11, <3>1, <3>2
  <2>2. \A d \in Conns : Down(d)' = Down(d)
    BY <1>5, <2>1
  <2> QED
    BY <1>2, <1>4, <2>2, SamePointwise
<1>12. CASE c \in Range(members) /\ Head(cto[c]).kind # "Full"
  <2>1. Down(c) # <<>> /\ Down(c)' = Tail(Down(c))
    <3>1. a \o b # <<>> /\ Tail(a \o b) = Tail(a) \o b
      BY <1>6, <1>8, <1>12, TailOfConcat
    <3> QED
      BY <1>7, <1>8, <1>9, <1>10, <1>12, <3>1
  <2> QED
    BY <1>2, <1>4, <1>5, <2>1 DEF Link!Receive
<1> QED
  BY <1>11, <1>12

\* The sender takes a post and sends it.
LEMMA LinkSendTake ==
    ASSUME ClientInv, SendTake
    PROVE  LinkSame
<1>1. ClientTypes
  BY DEF ClientInv
<1>2. /\ rest = <<>> /\ rest' = members /\ to # <<>> /\ current' = Head(to) /\ to' = Tail(to)
      /\ UNCHANGED <<sent, members, done, from, held, cfrom, cto, posted>>
  BY DEF SendTake, Recipients, web, reader, owner
<1>3. to \in Seq(1..MaxPosts)
  BY <1>1 DEF ClientTypes
<1>4. <<Head(to)>> \o Tail(to) = to
  <2>1. <<>> \in Seq(1..MaxPosts) /\ Append(<<>>, Head(to)) = <<Head(to)>>
    OBVIOUS
  <2>2. Append(<<>>, Head(to)) \o Tail(to) = <<>> \o to
    BY ONLY <1>2, <1>3, <2>1, StreamMoves
  <2> QED
    BY <1>3, <2>1, <2>2, ConcatEmptySeq
<1>5. ASSUME NEW d \in Conns
      PROVE  Down(d)' = Down(d)
  <2>1. CASE d \notin Range(members)
    BY <1>2, <2>1 DEF Down
  <2>2. CASE d \in Range(members)
    <3>1. Range(rest) = {}
      BY <1>2 DEF Range
    <3>2. Behind(d) = to
      BY <1>3, <3>1, ConcatEmptySeq DEF Behind
    <3>3. Behind(d)' = <<Head(to)>> \o Tail(to)
      BY <1>2, <2>2 DEF Behind
    <3>4. Behind(d)' = Behind(d)
      BY <1>4, <3>2, <3>3
    <3> QED
      BY <1>2, <3>4 DEF Down, Unheard
  <2> QED
    BY <2>1, <2>2
<1>6. /\ \A d \in Conns : Place(d)' = Place(d)
      /\ \A d \in Conns : Up(d)' = Up(d)
  BY <1>2, MappedKept
<1> QED
  BY <1>2, <1>5, <1>6, SamePointwise

LEMMA LinkSendOne ==
    ASSUME ClientInv, SendOne
    PROVE  LinkSame
<1>1. ClientTypes /\ Posting /\ Membership
  BY DEF ClientInv
<1>2. /\ rest # <<>>
      /\ UNCHANGED <<sent, members, done, from, held, cfrom, to, current, posted>>
  BY DEF SendOne, reader, owner
<1>3. PICK c \in Conns : /\ c = Head(rest) /\ c \in Range(rest)
                         /\ Range(Tail(rest)) = Range(rest) \ {c}
  BY <1>1, <1>2, RestTail DEF Posting, ClientTypes
<1>4. ASSUME NEW d \in Conns
      PROVE  Down(d)' = Down(d)
  <2>1. CASE c \in done
    <3>1. UNCHANGED <<cto, rest>>
      BY <1>3, <2>1 DEF SendOne
    <3> QED
      BY <1>2, <3>1, MappedKept
  <2>2. CASE c \notin done
    <3>1. cto' = [cto EXCEPT ![c] = Append(@, News(current))] /\ rest' = Tail(rest)
      BY <1>3, <2>2 DEF SendOne
    <3>2. CASE d # c
      <4>1. cto'[d] = cto[d] /\ (d \in Range(rest') <=> d \in Range(rest))
        BY <1>1, <1>3, <3>1, <3>2 DEF ClientTypes
      <4> QED
        BY <1>2, <4>1 DEF Down, Unheard, Behind
    <3>3. CASE d = c
      <4> DEFINE a == NewsIn(cto[c])
                 x == current
      <4>1. x \in Nat /\ News(x) \in Packets
        <5>1. x = Taken /\ x \in Nat
          BY <1>1, <1>2 DEF Posting
        <5>2. Taken <= posted /\ posted \in 0..MaxPosts
          BY <1>1, StreamTypes DEF ClientTypes
        <5>3. x \in 0..MaxPosts
          BY <5>1, <5>2, ClientAssumption
        <5> QED
          BY <5>1, <5>3, PacketType
      <4>2. cto[c] \in Seq(Packets) /\ cto'[c] = Append(cto[c], News(x))
        BY <1>1, <3>1 DEF ClientTypes
      <4>3. a \in Seq(Nat) /\ NewsIn(cto'[c]) = Append(a, x)
        BY <4>1, <4>2, NewsAppended
      <4>4. c \notin Range(rest')
        BY <1>3, <3>1
      <4>5. to \in Seq(Nat)
        BY MappedTypes
      <4>6. Unheard(c) = a \o (<<x>> \o to)
        BY <1>3 DEF Unheard, Behind
      <4>7. Unheard(c)' = Append(a, x) \o (<<>> \o to)
        BY <1>2, <4>3, <4>4 DEF Unheard, Behind
      <4> HIDE DEF a, x
      <4>8. <<>> \o to = to /\ Append(a, x) = a \o <<x>> /\ <<x>> \in Seq(Nat)
        BY <4>1, <4>3, <4>5, ConcatEmptySeq, AppendIsConcat
      <4>9. (a \o <<x>>) \o to = a \o (<<x>> \o to)
        BY ONLY <4>3, <4>5, <4>8, ConcatAssociative
      <4>10. Unheard(c)' = Unheard(c)
        BY <4>6, <4>7, <4>8, <4>9
      <4> QED
        BY <1>2, <3>3, <4>10 DEF Down
    <3> QED
      BY <3>2, <3>3
  <2> QED
    BY <2>1, <2>2
<1>5. /\ \A d \in Conns : Place(d)' = Place(d)
      /\ \A d \in Conns : Up(d)' = Up(d)
  BY <1>2, MappedKept
<1> QED
  BY <1>2, <1>4, <1>5, SamePointwise

\* The owner posts.
LEMMA LinkPost ==
    ASSUME ClientInv, OwnerPost
    PROVE  Link!Post
<1>1. ClientTypes
  BY DEF ClientInv
<1>2. /\ posted' = posted + 1 /\ to' = Append(to, posted + 1)
      /\ UNCHANGED <<sent, members, done, from, held, cfrom, cto, rest, current>>
  BY DEF OwnerPost, web, reader
<1>3. posted + 1 \in Nat
  BY <1>1 DEF ClientTypes
<1>4. ASSUME NEW d \in Conns
      PROVE  Down(d)' = IF d \in Range(members) THEN Append(Down(d), posted + 1) ELSE Down(d)
  <2>1. CASE d \notin Range(members)
    BY <1>2, <2>1 DEF Down
  <2>2. CASE d \in Range(members)
    <3> DEFINE a == NewsIn(cto[d])
               h == IF d \in Range(rest) THEN <<current>> ELSE <<>>
               x == posted + 1
    <3>1. a \in Seq(Nat) /\ to \in Seq(Nat) /\ x \in Nat /\ h \o to \in Seq(Nat)
      BY <1>3, MappedTypes DEF Behind
    <3>2. h \in Seq(Nat)
      <4>1. rest # <<>> => current \in Nat
        BY DEF ClientInv, Posting
      <4>2. d \in Range(rest) => rest # <<>>
        BY DEF Range
      <4> QED
        BY <4>1, <4>2
    <3>3. Down(d) = a \o (h \o to) /\ Down(d)' = a \o (h \o Append(to, x))
      BY <1>2, <2>2 DEF Down, Unheard, Behind
    <3> HIDE DEF a, h, x
    <3>4. h \o Append(to, x) = Append(h \o to, x)
      BY ONLY <3>1, <3>2, StreamGrows
    <3> DEFINE b == h \o to
    <3>5. a \in Seq(Nat) /\ b \in Seq(Nat) /\ x \in Nat
      BY <3>1
    <3> HIDE DEF b
    <3>6. a \o Append(b, x) = Append(a \o b, x)
      BY ONLY <3>5, StreamGrows
    <3>7. Down(d)' = Append(Down(d), x)
      BY <3>3, <3>4, <3>6 DEF b
    <3> QED
      BY <2>2, <3>7 DEF x
  <2> QED
    BY <2>1, <2>2
<1>5. /\ \A d \in Conns : Place(d)' = Place(d)
      /\ \A d \in Conns : Up(d)' = Up(d)
  BY <1>2, MappedKept
<1>6. \A d \in Conns : d \in Link!Inside <=> d \in Range(members)
  BY DEF Link!Inside, Place
<1> DEFINE down == [d \in Conns |-> Down(d)]
<1>7. down' = [d \in Conns |->
                 IF d \in Link!Inside THEN Append(down[d], posted + 1) ELSE down[d]]
  BY <1>4, <1>6
<1> QED
  BY <1>2, <1>5, <1>7 DEF Link!Post

\* The owner hands over a connection; the rest does not concern the link.
LEMMA LinkOthers ==
    ASSUME ClientInv,
           \/ \E c \in Conns : Run(c) \/ LoseSocket(c) \/ OwnerConsume(c)
           \/ UNCHANGED vars
    PROVE  LinkSame
<1>1. ASSUME NEW c \in Conns, OwnerConsume(c)
      PROVE  LinkSame
  <2>1. /\ c \notin Range(members)
        /\ cto' = [cto EXCEPT ![c] = Append(@, Snapshot(Newest))]
        /\ UNCHANGED <<sent, members, done, from, held, cfrom, to, rest, current, posted>>
    BY <1>1 DEF OwnerConsume, Fresh, reader, sender
  <2>2. ASSUME NEW d \in Conns
        PROVE  Down(d)' = Down(d)
    <3>1. CASE d \notin Range(members)
      BY <2>1, <3>1 DEF Down
    <3>2. CASE d \in Range(members)
      <4>1. cto'[d] = cto[d]
        BY <2>1, <3>2 DEF ClientInv, ClientTypes
      <4> QED
        BY <2>1, <4>1 DEF Down, Unheard, Behind
    <3> QED
      BY <3>1, <3>2
  <2> QED
    BY <2>1, <2>2, MappedKept, SamePointwise
<1>2. ASSUME \/ \E c \in Conns : Run(c) \/ LoseSocket(c)
             \/ UNCHANGED vars
      PROVE  LinkSame
  <2>1. UNCHANGED <<sent, members, done, from, held, cfrom, cto, to, rest, current, posted>>
    BY <1>2 DEF Run, LoseSocket, reader, sender, owner, vars, web
  <2> QED
    BY <2>1, MappedKept, SamePointwise
<1> QED
  BY <1>1, <1>2

LEMMA LinkBegins == Init => Link!LinkInit
<1> SUFFICES ASSUME Init
             PROVE  Link!LinkInit
  OBVIOUS
<1>1. Range(members) = {First} /\ done = {} /\ First \in Conns
  BY ClientAssumption DEF Init, Range
<1>2. \A c \in Conns : Place(c) = IF c = First THEN "inside" ELSE "outside"
  BY <1>1 DEF Place
<1>3. ASSUME NEW c \in Conns
      PROVE  Up(c) = <<>>
  <2>1. from = <<>> /\ held = None /\ cfrom[c] = <<>>
    BY DEF Init
  <2>2. NumbersOf(c, <<>>) = <<>>
    BY NumbersEmpty
  <2>3. Seconds(<<>>) = <<>>
    BY DEF Seconds
  <2>4. Up(c) = (<<>> \o <<>>) \o <<>>
    BY <2>1, <2>2, <2>3 DEF Up, HeldOf
  <2> QED
    BY <2>4
<1>4. ASSUME NEW c \in Conns
      PROVE  Down(c) = <<>>
  <2>1. CASE c # First
    BY <1>1, <2>1 DEF Down
  <2>2. CASE c = First
    <3>1. cto[c] = <<Snapshot(0)>> /\ rest = <<>> /\ to = <<>>
      BY <2>2 DEF Init
    <3>2. Head(cto[c]).kind = "Full" /\ cto[c] # <<>> /\ Tail(cto[c]) = <<>>
      BY <3>1 DEF Snapshot
    <3>3. NewsIn(cto[c]) = <<>>
      BY <3>2 DEF NewsIn, Numbers
    <3>4. Behind(c) = <<>> \o <<>>
      BY <3>1 DEF Behind, Range
    <3>5. Down(c) = <<>> \o (<<>> \o <<>>)
      BY <1>1, <2>2, <3>3, <3>4 DEF Down, Unheard
    <3> QED
      BY <3>5
  <2> QED
    BY <2>1, <2>2
<1> QED
  BY <1>1, <1>2, <1>3, <1>4 DEF Link!LinkInit, Init

LEMMA LinkStep ==
    ASSUME ClientInv, [Next]_vars
    PROVE  [Link!LinkNext]_(Link!linkVars)
<1>1. ASSUME NEW c \in Conns, ReadSocket(c) \/ WriteSocket(c) \/ ReadMessage(c) \/ ReadEnd(c)
      PROVE  Link!LinkNext \/ LinkSame
  BY <1>1, LinkSubmit, LinkReceive, LinkReadMessage, LinkLeave DEF Link!LinkNext
<1>2. ASSUME ReadJoin \/ OwnerRead \/ OwnerPost
      PROVE  Link!LinkNext
  BY <1>2, LinkEnter, LinkDeliver, LinkPost DEF Link!LinkNext
<1>3. ASSUME Expose \/ SendTake \/ SendOne
      PROVE  LinkSame
  BY <1>3, LinkExpose, LinkSendTake, LinkSendOne
<1>4. ASSUME \/ \E c \in Conns : Run(c) \/ LoseSocket(c) \/ OwnerConsume(c)
             \/ UNCHANGED vars
      PROVE  LinkSame
  BY <1>4, LinkOthers
<1>5. Link!LinkNext \/ LinkSame
  BY <1>1, <1>2, <1>3, <1>4 DEF Next
<1> QED
  BY <1>5, SameIsStutter

\* The client implements the link of ClientLink (multiweb.go and web.go): what a
\* connection sends reaches the owner in order and once, and is dropped only when
\* all connections had gone; a post reaches every connection that is inside, in
\* order and once; who joins misses nothing that is posted afterwards.
THEOREM LinkImplemented == Spec => LinkKept
<1>1. Init => Link!LinkInit
  BY LinkBegins
<1>2. ClientInv /\ [Next]_vars => [Link!LinkNext]_(Link!linkVars)
  BY LinkStep
<1> QED
  BY <1>1, <1>2, ClientAlways, PTL DEF Spec, LinkKept, Link!LinkSpec

=============================================================================
