------------------------------ MODULE BodiesProofs ------------------------------
(***************************************************************************)
(* Proofs about Bodies: about each of the three kinds of body by itself,   *)
(* for any number of reads, pulls and calls, and about their composition.  *)
(***************************************************************************)
EXTENDS Bodies, FiniteSetTheorems, TLAPS

--------------------------------------------------------------------------------
(* StreamingBody: a response that is read piece by piece. *)

\* A read that is in the network stands where the stream stands.
ReaderIsHere == \A r \in Reads : read[r] = "reading" => at[r] = pos

\* Chunks are taken out only for a read that returns them, was cancelled, or came
\* to grief over its codec.
OnlyResultsHold ==
  \A r \in Reads :
    got[r] # {} => \/ read[r] \in {"chunk", "cancelled"}
                   \/ Method[r] = "unknown" /\ read[r] = "undecoded"

\* The chunks that were read are the first `pos`, each in one result.
Apart == \A r, s \in Reads : r # s => got[r] \cap got[s] = {}
UpToHere == \A r \in Reads : got[r] \subseteq 1 .. pos
NoneSkipped == \A n \in 1 .. pos : \E r \in Reads : n \in got[r]

\* Somebody has taken the whole body for himself.
Taken == \E s \in Whole : read[s] \in {"reading", "chunk", "undecoded", "error", "cancelled"}

\* The slot is empty for one of two reasons, and who says "end" has seen it empty.
EmptyForAReason ==
  ~slot => \/ Taken
           \/ pos = Length /\ ~broken /\ \A r \in Reads : read[r] # "reading"
EndIsEmpty == \A r \in Reads : read[r] = "end" => ~slot

BInv == /\ TypeOK /\ ReaderIsHere /\ OnlyResultsHold /\ Apart /\ UpToHere /\ NoneSkipped
        /\ EmptyForAReason /\ EndIsEmpty

--------------------------------------------------------------------------------
(* Sequences *)

LEMMA AppendFacts ==
  ASSUME NEW S, NEW s \in Seq(S), NEW e \in S
  PROVE  Append(s, e) \in Seq(S) /\ Append(s, e) # <<>> /\ (s # <<>> => Head(Append(s, e)) = Head(s))
<1>1. Append(s, e) \in Seq(S) /\ Len(Append(s, e)) = Len(s) + 1
  OBVIOUS
<1>2. ASSUME s # <<>> PROVE Append(s, e)[1] = s[1]
  BY <1>2
<1> QED  BY <1>1, <1>2

LEMMA RemoveAtFacts ==
  ASSUME NEW S, NEW s \in Seq(S), NEW i \in DOMAIN s
  PROVE  /\ RemoveAt(s, i) \in Seq(S)
         /\ i # 1 => RemoveAt(s, i) # <<>> /\ Head(RemoveAt(s, i)) = Head(s)
<1> DEFINE front == SubSeq(s, 1, i - 1)
           back  == SubSeq(s, i + 1, Len(s))
<1>1. front \in Seq(S) /\ Len(front) = i - 1 /\ \A j \in 1 .. i - 1 : front[j] = s[j]
  OBVIOUS
<1>2. back \in Seq(S)
  OBVIOUS
<1>3. RemoveAt(s, i) = front \o back
  BY DEF RemoveAt
<1> HIDE DEF front, back
<1>4. front \o back \in Seq(S)
  BY <1>1, <1>2
<1>5. ASSUME i # 1 PROVE front \o back # <<>> /\ (front \o back)[1] = s[1]
  BY <1>1, <1>2, <1>5
<1> QED  BY <1>3, <1>4, <1>5

--------------------------------------------------------------------------------
LEMMA StreamStarts == Init => BInv
<1> SUFFICES ASSUME Init PROVE BInv
  OBVIOUS
<1> USE LengthAssumption DEF Init
<1>1. queue \in Seq(Reads)
  OBVIOUS
<1>2. TypeOK
  <2>1. pos \in 0 .. Length
    OBVIOUS
  <2>2. slot \in BOOLEAN /\ broken \in BOOLEAN
    OBVIOUS
  <2>3. read \in [Reads -> Stages] /\ \A r \in Reads : read[r] # "reading"
    BY DEF Stages, Results
  <2>4. at \in [Reads -> 0 .. Length] /\ got \in [Reads -> SUBSET (1 .. Length)]
    <3>1. 0 \in 0 .. Length /\ {} \in SUBSET (1 .. Length)
      OBVIOUS
    <3>2. at = [r \in Reads |-> 0] /\ got = [r \in Reads |-> {}]
      OBVIOUS
    <3> HIDE DEF Init
    <3> QED  BY <3>1, <3>2
  <2> QED  BY <1>1, <2>1, <2>2, <2>3, <2>4 DEF TypeOK
<1>3. Apart /\ UpToHere /\ NoneSkipped /\ OnlyResultsHold
  BY DEF Apart, UpToHere, NoneSkipped, OnlyResultsHold
<1> QED  BY <1>2, <1>3 DEF BInv, ReaderIsHere, EmptyForAReason, EndIsEmpty

\* The steps that hand nothing out keep the account of the chunks.
LEMMA AccountKept ==
  ASSUME BInv, pos' = pos, got' = got
  PROVE  Apart' /\ UpToHere' /\ NoneSkipped'
BY DEF BInv, Apart, UpToHere, NoneSkipped

\* A read that hands out the next chunks of the stream extends it.
LEMMA AccountExtended ==
  ASSUME BInv, NEW r \in Reads, NEW to \in Nat, pos <= to, to <= Length,
         read[r] = "reading",
         pos' = to, got' = [got EXCEPT ![r] = (pos + 1) .. to]
  PROVE  Apart' /\ UpToHere' /\ NoneSkipped'
<1> USE LengthAssumption DEF BInv, TypeOK
<1>1. got[r] = {}
  BY DEF OnlyResultsHold
<1>2. got'[r] = (pos + 1) .. to /\ \A s \in Reads : s # r => got'[s] = got[s]
  OBVIOUS
<1>3. Apart'
  BY <1>2 DEF Apart, UpToHere
<1>4. UpToHere'
  BY <1>2 DEF UpToHere
<1>5. NoneSkipped'
  <2> SUFFICES ASSUME NEW n \in 1 .. to PROVE \E s \in Reads : n \in got'[s]
    BY DEF NoneSkipped
  <2>1. CASE n > pos
    BY <2>1, <1>2
  <2>2. CASE n <= pos
    <3>1. PICK s \in Reads : n \in got[s]
      BY <2>2 DEF NoneSkipped
    <3> QED  BY <3>1, <1>1, <1>2
  <2> QED  BY <2>1, <2>2
<1> QED  BY <1>3, <1>4, <1>5

\* One read at a time is in the network, for one holds the mutex.
LEMMA OneReads ==
  ASSUME BInv, NEW r \in Reads, read[r] = "reading"
  PROVE  \A s \in Reads : s # r => read[s] # "reading"
BY DEF BInv, TypeOK

LEMMA StreamStep == BInv /\ [Next]_vars => BInv'
<1> SUFFICES ASSUME BInv, [Next]_vars PROVE BInv'
  OBVIOUS
<1> USE MethodAssumption, LengthAssumption
<1>1. ASSUME NEW r \in Reads, Call(r) PROVE BInv'
  <2>1. queue' \in Seq(Reads) /\ queue' # <<>> /\ (queue # <<>> => Head(queue') = Head(queue))
    BY <1>1, AppendFacts DEF Call, BInv, TypeOK
  <2>2. TypeOK'
    BY <1>1, <2>1 DEF Call, Goto, BInv, TypeOK, Stages, Results
  <2>3. Apart' /\ UpToHere' /\ NoneSkipped'
    BY <1>1, AccountKept DEF Call
  <2> QED
    BY <1>1, <2>2, <2>3 DEF Call, Goto, BInv, TypeOK, ReaderIsHere, OnlyResultsHold,
       EmptyForAReason, EndIsEmpty, Taken, Whole
<1>2. ASSUME NEW r \in Reads, Begin(r) PROVE BInv'
  <2>1. TypeOK'
    BY <1>2 DEF Begin, Holds, Goto, BInv, TypeOK, Stages, Results
  <2>2. Apart' /\ UpToHere' /\ NoneSkipped'
    BY <1>2, AccountKept DEF Begin
  <2>3. ReaderIsHere' /\ OnlyResultsHold' /\ EndIsEmpty'
    BY <1>2 DEF Begin, Goto, BInv, TypeOK, ReaderIsHere, OnlyResultsHold, EndIsEmpty
  <2>4. EmptyForAReason'
    BY <1>2 DEF Begin, Goto, BInv, TypeOK, EmptyForAReason, Taken, Whole
  <2> QED  BY <2>1, <2>2, <2>3, <2>4 DEF BInv
<1>3. ASSUME NEW r \in Reads, BeginConsumed(r) PROVE BInv'
  <2>1. queue' \in Seq(Reads) /\ \A s \in Reads : s # r => read[s] # "reading"
    BY <1>3 DEF BeginConsumed, Holds, Unlock, BInv, TypeOK
  <2>2. TypeOK'
    BY <1>3, <2>1 DEF BeginConsumed, Goto, BInv, TypeOK, Stages, Results
  <2>3. Apart' /\ UpToHere' /\ NoneSkipped'
    BY <1>3, AccountKept DEF BeginConsumed
  <2> QED
    BY <1>3, <2>2, <2>3 DEF BeginConsumed, Goto, BInv, TypeOK, ReaderIsHere,
       OnlyResultsHold, EmptyForAReason, EndIsEmpty, Taken, Whole
<1>4. ASSUME NEW r \in Reads, ReadChunk(r) PROVE BInv'
  <2>1. queue' \in Seq(Reads) /\ \A s \in Reads : s # r => read[s] # "reading"
    BY <1>4, OneReads DEF ReadChunk, Unlock, BInv, TypeOK
  <2>2. at[r] = pos /\ pos + 1 <= Length
    BY <1>4 DEF ReadChunk, BInv, TypeOK, ReaderIsHere
  <2>3. TypeOK'
    BY <1>4, <2>1, <2>2 DEF ReadChunk, Goto, BInv, TypeOK, Stages, Results
  <2>4. Apart' /\ UpToHere' /\ NoneSkipped'
    <3>1. pos \in Nat /\ (pos + 1) .. (pos + 1) = {pos + 1}
      BY DEF BInv, TypeOK
    <3>2. /\ read[r] = "reading" /\ pos' = pos + 1
          /\ got' = [got EXCEPT ![r] = (pos + 1) .. (pos + 1)]
      BY <1>4, <2>2, <3>1 DEF ReadChunk
    <3>3. pos + 1 \in Nat /\ pos <= pos + 1
      BY <3>1
    <3> QED  BY <2>2, <3>2, <3>3, AccountExtended
  <2> QED
    BY <1>4, <2>1, <2>2, <2>3, <2>4 DEF ReadChunk, Goto, BInv, TypeOK, ReaderIsHere,
       OnlyResultsHold, EmptyForAReason, EndIsEmpty, Taken, Whole
<1>5. ASSUME NEW r \in Reads, ReadEnd(r) PROVE BInv'
  <2>1. queue' \in Seq(Reads) /\ \A s \in Reads : s # r => read[s] # "reading"
    BY <1>5, OneReads DEF ReadEnd, Unlock, BInv, TypeOK
  <2>2. TypeOK'
    BY <1>5, <2>1 DEF ReadEnd, Goto, BInv, TypeOK, Stages, Results
  <2>3. Apart' /\ UpToHere' /\ NoneSkipped'
    BY <1>5, AccountKept DEF ReadEnd
  <2> QED
    BY <1>5, <2>1, <2>2, <2>3 DEF ReadEnd, Goto, BInv, TypeOK, ReaderIsHere,
       OnlyResultsHold, EmptyForAReason, EndIsEmpty
<1>6. ASSUME NEW r \in Reads, ReadError(r) PROVE BInv'
  <2>1. queue' \in Seq(Reads) /\ \A s \in Reads : s # r => read[s] # "reading"
    BY <1>6, OneReads DEF ReadError, Unlock, BInv, TypeOK
  <2>2. TypeOK'
    BY <1>6, <2>1 DEF ReadError, Goto, BInv, TypeOK, Stages, Results
  <2>3. Apart' /\ UpToHere' /\ NoneSkipped'
    BY <1>6, AccountKept DEF ReadError
  <2> QED
    BY <1>6, <2>2, <2>3 DEF ReadError, Goto, BInv, TypeOK, ReaderIsHere,
       OnlyResultsHold, EmptyForAReason, EndIsEmpty, Taken, Whole
<1>7. ASSUME NEW r \in Reads, ReadRest(r) PROVE BInv'
  <2>1. queue' \in Seq(Reads) /\ \A s \in Reads : s # r => read[s] # "reading"
    BY <1>7, OneReads DEF ReadRest, Unlock, BInv, TypeOK
  <2>2. at[r] = pos /\ pos \in Nat /\ pos <= Length
    BY <1>7 DEF ReadRest, BInv, TypeOK, ReaderIsHere
  <2>3. TypeOK'
    BY <1>7, <2>1, <2>2 DEF ReadRest, Goto, BInv, TypeOK, Stages, Results
  <2>4. Apart' /\ UpToHere' /\ NoneSkipped'
    <3>1. /\ read[r] = "reading" /\ pos' = Length
          /\ got' = [got EXCEPT ![r] = (pos + 1) .. Length]
      BY <1>7, <2>2 DEF ReadRest
    <3>2. Length <= Length
      OBVIOUS
    <3> QED  BY <2>2, <3>1, <3>2, AccountExtended
  <2> QED
    BY <1>7, <2>1, <2>3, <2>4 DEF ReadRest, Goto, BInv, TypeOK, ReaderIsHere,
       OnlyResultsHold, EmptyForAReason, EndIsEmpty, Taken, Whole
<1>8. ASSUME NEW r \in Reads, CancelInQueue(r) PROVE BInv'
  <2>1. PICK i \in DOMAIN queue : queue[i] = r /\ queue' = RemoveAt(queue, i)
    BY <1>8 DEF CancelInQueue
  <2>2. queue' \in Seq(Reads)
    BY <2>1, RemoveAtFacts DEF BInv, TypeOK
  <2>3. \A s \in Reads : s # r /\ read[s] = "reading" => queue' # <<>> /\ Head(queue') = s
    BY <2>1, RemoveAtFacts DEF BInv, TypeOK
  <2>4. TypeOK'
    BY <1>8, <2>2, <2>3 DEF CancelInQueue, Goto, BInv, TypeOK, Stages, Results
  <2>5. Apart' /\ UpToHere' /\ NoneSkipped'
    BY <1>8, AccountKept DEF CancelInQueue
  <2> QED
    BY <1>8, <2>4, <2>5 DEF CancelInQueue, Goto, BInv, TypeOK, ReaderIsHere,
       OnlyResultsHold, EmptyForAReason, EndIsEmpty, Taken, Whole
<1>9. ASSUME NEW r \in Reads, CancelResult(r) PROVE BInv'
  <2>1. TypeOK'
    BY <1>9 DEF CancelResult, Results, Goto, BInv, TypeOK, Stages
  <2>2. Apart' /\ UpToHere' /\ NoneSkipped'
    BY <1>9, AccountKept DEF CancelResult
  <2> QED
    BY <1>9, <2>1, <2>2 DEF CancelResult, Results, Goto, BInv, TypeOK, ReaderIsHere,
       OnlyResultsHold, EmptyForAReason, EndIsEmpty, Taken, Whole
<1>10. CASE UNCHANGED vars
  BY <1>10 DEF vars, BInv, TypeOK, ReaderIsHere, OnlyResultsHold, Apart, UpToHere,
     NoneSkipped, EmptyForAReason, EndIsEmpty, Taken, Whole
<1> QED
  BY <1>1, <1>2, <1>3, <1>4, <1>5, <1>6, <1>7, <1>8, <1>9, <1>10
     DEF Next, TakesTurn, Network

LEMMA StreamAlways == Spec => []BInv
BY StreamStarts, StreamStep, PTL DEF Spec

--------------------------------------------------------------------------------
(* The theorems. *)

\* Types, and that a read in the network is the one that holds the mutex.
THEOREM StreamTypeCorrect == Spec => []TypeOK
BY StreamAlways, PTL DEF BInv

\* Concurrent reads share the body out: no chunk twice, none skipped (the mutex is
\* kept across chunk().await), and none spent but on a read that returns it, was
\* cancelled or was text() with a codec that Python does not have.
THEOREM BodyIsSharedOut == Spec => []EachChunkOnce
<1>1. BInv => EachChunkOnce
  <2> SUFFICES ASSUME BInv PROVE UNION {got[r] : r \in Reads} = 1 .. pos
    BY DEF BInv, Apart, OnlyResultsHold, EachChunkOnce
  <2>1. ASSUME NEW n \in UNION {got[r] : r \in Reads} PROVE n \in 1 .. pos
    BY <2>1 DEF BInv, UpToHere
  <2>2. ASSUME NEW n \in 1 .. pos PROVE n \in UNION {got[r] : r \in Reads}
    BY <2>2 DEF BInv, NoneSkipped
  <2> QED  BY <2>1, <2>2
<1> QED  BY <1>1, StreamAlways, PTL

\* Who reports the end of the body is right (the slot is emptied only at the end
\* and by bytes() or text()).
THEOREM EndsAreHonest == Spec => []EndIsHonest
<1>1. BInv => EndIsHonest
  BY DEF BInv, EndIsEmpty, EmptyForAReason, Taken, EndIsHonest
<1> QED  BY <1>1, StreamAlways, PTL

--------------------------------------------------------------------------------
(* StreamingBody implements BodyContract. *)

\* A read that is in the network has left the body to itself, or taken it.
HasBody == \A r \in Reads : read[r] = "reading" => (slot <=> r \notin Whole)

LEMMA HasBodyKept == BInv /\ HasBody /\ [Next]_vars => HasBody'
<1> SUFFICES ASSUME BInv, HasBody, [Next]_vars PROVE HasBody'
  OBVIOUS
<1>1. ASSUME NEW r \in Reads, Begin(r) PROVE HasBody'
  <2>1. \A s \in Reads : s # r => read[s] # "reading"
    BY <1>1 DEF Begin, Holds, BInv, TypeOK
  <2> QED  BY <1>1, <2>1 DEF Begin, Goto, HasBody, BInv, TypeOK
<1>2. ASSUME NEW r \in Reads, Network(r) PROVE HasBody'
  <2>1. \A s \in Reads : s # r => read[s] # "reading"
    BY <1>2, OneReads DEF Network, ReadChunk, ReadEnd, ReadError, ReadRest
  <2>2. \A s \in Reads : read'[s] # "reading"
    BY <1>2, <2>1 DEF Network, ReadChunk, ReadEnd, ReadError, ReadRest, Goto, BInv, TypeOK
  <2> QED  BY <2>2 DEF HasBody
<1>3. ASSUME NEW r \in Reads, Call(r) \/ BeginConsumed(r) \/ CancelInQueue(r) \/ CancelResult(r)
      PROVE  HasBody'
  BY <1>3 DEF Call, BeginConsumed, CancelInQueue, CancelResult, Goto, HasBody, BInv, TypeOK
<1>4. CASE UNCHANGED vars
  BY <1>4 DEF vars, HasBody
<1> QED  BY <1>1, <1>2, <1>3, <1>4 DEF Next, TakesTurn

\* The terms of the contract.
Pending == {"new", "waiting", "reading"}
taking  == {r \in Whole : read[r] = "reading"}
result  == [r \in Reads |-> IF read[r] \in Pending THEN "none" ELSE read[r]]

\* A read that comes to an end, as the contract sees it.
LEMMA Answered ==
  ASSUME BInv, NEW r \in Reads, NEW what \in Results,
         read[r] \in Pending, Goto(r, what)
  PROVE  Contract!Answer(r, what)
<1>1. /\ result[r] = "none" /\ result' = [result EXCEPT ![r] = what]
      /\ taking' = taking \ {r}
  BY DEF result, taking, Whole, Pending, Results, Goto, BInv, TypeOK
<1> QED  BY <1>1 DEF Contract!Answer, result, taking, Pending

LEMMA Cancelled ==
  ASSUME BInv, NEW r \in Reads, read[r] # "cancelled", Goto(r, "cancelled"),
         UNCHANGED <<slot, pos, broken, got>>
  PROVE  Contract!Cancel(r)
<1>1. /\ result[r] # "cancelled" /\ result' = [result EXCEPT ![r] = "cancelled"]
      /\ taking' = taking \ {r}
  BY DEF result, taking, Whole, Pending, Goto, BInv, TypeOK
<1> QED  BY <1>1 DEF Contract!Cancel, result, taking, Pending

\* Going on without a result, and without taking the body, is nothing to it.
LEMMA Waits ==
  ASSUME BInv, NEW r \in Reads, NEW stage \in Pending, read[r] \in Pending, Goto(r, stage),
         r \in Whole => stage # "reading" /\ read[r] # "reading",
         UNCHANGED <<slot, pos, broken, got>>
  PROVE  UNCHANGED Contract!vars
<1>1. result' = result /\ taking' = taking
  BY DEF result, taking, Whole, Pending, Goto, BInv, TypeOK
<1> QED  BY <1>1 DEF Contract!vars, result, taking, Pending

LEMMA ContractStarts == Init => Contract!Init
<1> SUFFICES ASSUME Init PROVE Contract!Init
  OBVIOUS
<1>1. result = [r \in Reads |-> "none"] /\ taking = {}
  BY DEF Init, result, taking, Whole, Pending
<1> QED  BY <1>1 DEF Init, Contract!Init, result, taking, Pending

LEMMA ContractStep == BInv /\ HasBody /\ [Next]_vars => [Contract!Next]_(Contract!vars)
<1> SUFFICES ASSUME BInv, HasBody, [Next]_vars PROVE [Contract!Next]_(Contract!vars)
  OBVIOUS
<1>1. ASSUME NEW r \in Reads, Call(r) PROVE UNCHANGED Contract!vars
  BY <1>1, Waits DEF Call, Pending
<1>2. ASSUME NEW r \in Reads, Begin(r) PROVE Contract!Take(r) \/ UNCHANGED Contract!vars
  <2>1. CASE r \notin Whole
    <3>1. slot' = slot
      BY <1>2, <2>1 DEF Begin, BInv, TypeOK
    <3> QED  BY <1>2, <2>1, <3>1, Waits DEF Begin, Pending
  <2>2. CASE r \in Whole
    <3>1. \A s \in Reads : s # r => read[s] # "reading"
      BY <1>2 DEF Begin, Holds, BInv, TypeOK
    <3>2. result' = result /\ result[r] = "none" /\ taking' = {r}
      BY <1>2, <2>2, <3>1 DEF Begin, Goto, result, taking, Whole, Pending, BInv, TypeOK
    <3> QED
      BY <1>2, <2>2, <3>2 DEF Begin, Contract!Take, Contract!Whole, Whole, result, taking, Pending
  <2> QED  BY <2>1, <2>2
<1>3. ASSUME NEW r \in Reads, BeginConsumed(r) PROVE Contract!FindGone(r)
  <2>1. r \notin taking
    BY <1>3 DEF BeginConsumed, taking
  <2>2. Contract!Answer(r, IF Method[r] = "next" THEN "end" ELSE "consumed")
    BY <1>3, Answered DEF BeginConsumed, Pending, Results
  <2> QED  BY <1>3, <2>1, <2>2 DEF BeginConsumed, Contract!FindGone, taking
<1>4. ASSUME NEW r \in Reads, ReadChunk(r) PROVE Contract!Give(r)
  <2>1. at[r] = pos /\ slot
    BY <1>4 DEF ReadChunk, BInv, ReaderIsHere, HasBody
  <2>2. Contract!Answer(r, "chunk")
    BY <1>4, Answered DEF ReadChunk, Pending, Results
  <2> QED  BY <1>4, <2>1, <2>2 DEF ReadChunk, Contract!Give, Contract!Whole, Whole
<1>5. ASSUME NEW r \in Reads, ReadEnd(r) PROVE Contract!GiveEnd(r)
  <2>1. at[r] = pos /\ slot
    BY <1>5 DEF ReadEnd, BInv, ReaderIsHere, HasBody
  <2>2. Contract!Answer(r, "end")
    BY <1>5, Answered DEF ReadEnd, Pending, Results
  <2> QED  BY <1>5, <2>1, <2>2 DEF ReadEnd, Contract!GiveEnd, Contract!Whole, Whole
<1>6. ASSUME NEW r \in Reads, ReadError(r) PROVE Contract!Fail(r)
  <2>1. r \in taking \/ (r \notin Whole /\ slot)
    BY <1>6 DEF ReadError, taking, HasBody
  <2>2. Contract!Answer(r, "error")
    BY <1>6, Answered DEF ReadError, Pending, Results
  <2> QED  BY <1>6, <2>1, <2>2 DEF ReadError, Contract!Fail, Contract!Whole, Whole, taking
<1>7. ASSUME NEW r \in Reads, ReadRest(r) PROVE Contract!GiveRest(r)
  <2>1. at[r] = pos /\ r \in taking
    BY <1>7 DEF ReadRest, BInv, ReaderIsHere, taking
  <2>2. Contract!Answer(r, IF Method[r] = "unknown" THEN "undecoded" ELSE "chunk")
    BY <1>7, Answered DEF ReadRest, Pending, Results
  <2> QED  BY <1>7, <2>1, <2>2 DEF ReadRest, Contract!GiveRest, taking
<1>8. ASSUME NEW r \in Reads, CancelInQueue(r) \/ CancelResult(r) PROVE Contract!Cancel(r)
  BY <1>8, Cancelled DEF CancelInQueue, CancelResult, Results
<1>9. CASE UNCHANGED vars
  BY <1>9 DEF vars, Contract!vars
<1> QED
  BY <1>1, <1>2, <1>3, <1>4, <1>5, <1>6, <1>7, <1>8, <1>9
     DEF Next, TakesTurn, Network, Contract!Next

\* Overlapping reads are as good as reads that take effect one by one.
THEOREM StreamRefinesContract == Spec => ReadsAreAtomic
<1>1. Init => BInv /\ HasBody
  BY StreamStarts DEF Init, HasBody
<1>2. BInv /\ HasBody /\ [Next]_vars => BInv' /\ HasBody'
  BY StreamStep, HasBodyKept
<1> QED
  BY <1>1, <1>2, ContractStarts, ContractStep, PTL DEF Spec, ReadsAreAtomic, Contract!Spec

--------------------------------------------------------------------------------
(* UploadStream: a request body pulled out of a Python object. *)

\* The one pull that may be in flight is the one that the stream waits for.
OnlyPendingRuns == \A i \in DOMAIN pulls : pulls[i] \in InFlight => pending = i

\* A source that ended or failed is known, or about to be known, to the stream.
EndIsNoticed == \A i \in DOMAIN pulls : pulls[i] \in {End, Failed} => done \/ pending = i

\* The source's end has come out of a pull, and nowhere else.
EofIsPulled == eof <=> \E i \in DOMAIN pulls : pulls[i] = End
GivenIsPulled == \A k \in DOMAIN out : out[k] = End => \E i \in DOMAIN pulls : pulls[i] = End

UInv == UploadTypeOK /\ OnlyPendingRuns /\ EndIsNoticed /\ EofIsPulled /\ GivenIsPulled

--------------------------------------------------------------------------------
LEMMA ItemsDiffer ==
  /\ End \in Item /\ Failed \in Item
  /\ InFlight \cap Item = {}
  /\ End # Failed
  /\ \A item \in InFlight \cup Item : item.is = "chunk" => item \notin {End, Failed}
  /\ \A item \in Item : item.is # "chunk" => item \in {End, Failed}
  /\ \A n \in Nat : Chunk(n) \in Item /\ Chunk(n) \notin {End, Failed}
BY DEF Item, InFlight, Spawned, Running, End, Failed, Chunk

\* What becomes of an answer is an item, and the end only if the source is exhausted.
LEMMA AnswerIsItem ==
  ASSUME NEW answer \in Answers, NEW n \in Nat, kind \in {"reader", "sync", "async"}
  PROVE  /\ ItemOf(answer, n) \in Item
         /\ ItemOf(answer, n) = End <=> Exhausts(answer)
<1>1. answer \in {"bytes", "empty", "none", "stop", "raises"}
  BY DEF Answers
<1>2. CASE answer = "raises"
  BY <1>2, ItemsDiffer DEF ItemOf, Exhausts
<1>3. CASE answer \in {"none", "stop"}
  BY <1>3, ItemsDiffer DEF ItemOf, Exhausts
<1>4. CASE answer = "empty" /\ kind = "reader"
  BY <1>4, ItemsDiffer DEF ItemOf, Exhausts
<1>5. CASE answer = "bytes" \/ (answer = "empty" /\ kind # "reader")
  <2>1. ItemOf(answer, n) = Chunk(n) /\ ~Exhausts(answer)
    BY <1>5 DEF ItemOf, Exhausts
  <2> QED  BY <2>1, ItemsDiffer
<1> QED  BY <1>1, <1>2, <1>3, <1>4, <1>5

LEMMA UploadStarts == UploadInit => UInv
<1> SUFFICES ASSUME UploadInit PROVE UInv
  OBVIOUS
<1>1. DOMAIN pulls = {} /\ DOMAIN out = {}
  BY DEF UploadInit
<1>2. UploadTypeOK
  <2>1. pulls \in Seq(InFlight \cup Item) /\ out \in Seq(Item) /\ Len(pulls) = 0
    BY DEF UploadInit
  <2>2. pending \in 0 .. Len(pulls) /\ cursor \in Nat
    BY <2>1 DEF UploadInit
  <2>3. kind \in {"reader", "sync", "async"} /\ stream \in {"open", "dropped"}
    BY DEF UploadInit
  <2> QED  BY <2>1, <2>2, <2>3 DEF UploadInit, UploadTypeOK
<1>3. EofIsPulled
  BY <1>1 DEF UploadInit, EofIsPulled
<1> QED  BY <1>1, <1>2, <1>3 DEF UInv, OnlyPendingRuns, EndIsNoticed, GivenIsPulled

\* Every step of poll_next starts a pull only when there is none and the source has
\* not ended.
LEMMA UploadStep == UInv /\ [UploadNext]_uploadVars => UInv'
<1> SUFFICES ASSUME UInv, [UploadNext]_uploadVars PROVE UInv'
  OBVIOUS
<1> USE DEF UInv, UploadTypeOK, OnlyPendingRuns, EndIsNoticed, EofIsPulled, GivenIsPulled
<1>1. CASE StartPull
  <2>1. \A i \in DOMAIN pulls : pulls[i] \notin InFlight \cup {End, Failed}
    BY <1>1 DEF StartPull, Polled
  <2>2. Spawned \in InFlight /\ Spawned \notin {End, Failed}
    BY DEF InFlight, Spawned, End, Failed
  <2>3. /\ pulls' \in Seq(InFlight \cup Item)
        /\ Len(pulls') = Len(pulls) + 1 /\ pending' = Len(pulls')
        /\ \A i \in DOMAIN pulls' : IF i = Len(pulls') THEN pulls'[i] = Spawned
                                    ELSE i \in DOMAIN pulls /\ pulls'[i] = pulls[i]
    BY <1>1, <2>2 DEF StartPull
  <2> QED  BY <1>1, <2>1, <2>2, <2>3 DEF StartPull, Polled
<1>2. CASE AnextRaises
  <2>1. PICK item \in {End, Failed} :
          pulls' = Append(pulls, item) /\ out' = Append(out, item) /\ eof' = (item = End)
    BY <1>2 DEF AnextRaises
  <2>2. item \in Item /\ item \notin InFlight
    BY <2>1, ItemsDiffer
  <2>3. \A i \in DOMAIN pulls : pulls[i] \notin InFlight \cup {End, Failed}
    BY <1>2 DEF AnextRaises, Polled
  <2>4. /\ pulls' \in Seq(InFlight \cup Item) /\ out' \in Seq(Item)
        /\ Len(pulls') = Len(pulls) + 1 /\ Len(out') = Len(out) + 1
        /\ \A i \in DOMAIN pulls' : IF i = Len(pulls') THEN pulls'[i] = item
                                    ELSE i \in DOMAIN pulls /\ pulls'[i] = pulls[i]
        /\ \A i \in DOMAIN out' : IF i = Len(out') THEN out'[i] = item
                                  ELSE i \in DOMAIN out /\ out'[i] = out[i]
    BY <2>1, <2>2
  <2>5. Len(pulls') \in DOMAIN pulls' /\ pulls'[Len(pulls')] = item
    BY <2>4
  <2>6. UploadTypeOK' /\ OnlyPendingRuns' /\ EndIsNoticed'
    BY <1>2, <2>1, <2>2, <2>3, <2>4 DEF AnextRaises, Polled
  <2>7. EofIsPulled'
    <3>1. CASE item = End
      BY <3>1, <2>1, <2>5
    <3>2. CASE item = Failed
      <4>1. \A i \in DOMAIN pulls' : pulls'[i] # End
        BY <3>2, <2>3, <2>4, ItemsDiffer
      <4>2. eof' = FALSE
        BY <3>2, <2>1, ItemsDiffer
      <4> QED  BY <4>1, <4>2
    <3> QED  BY <3>1, <3>2
  <2>8. GivenIsPulled'
    BY <2>3, <2>4, <2>5
  <2> QED  BY <2>6, <2>7, <2>8
<1>3. CASE Deliver
  <2>1. pending \in DOMAIN pulls /\ pulls[pending] \in Item
    BY <1>3 DEF Deliver
  <2>2. /\ out' \in Seq(Item) /\ Len(out') = Len(out) + 1
        /\ \A i \in DOMAIN out' : IF i = Len(out') THEN out'[i] = pulls[pending]
                                  ELSE i \in DOMAIN out /\ out'[i] = out[i]
    BY <1>3, <2>1 DEF Deliver
  <2>3. EndIsNoticed'
    <3> SUFFICES ASSUME NEW i \in DOMAIN pulls, pulls[i] \in {End, Failed} PROVE done'
      BY <1>3 DEF Deliver
    <3>1. pending = i
      BY <1>3 DEF Deliver, Polled
    <3> QED  BY <1>3, <3>1, ItemsDiffer DEF Deliver
  <2>4. UploadTypeOK' /\ OnlyPendingRuns' /\ EofIsPulled'
    BY <1>3, <2>2 DEF Deliver
  <2>5. GivenIsPulled'
    BY <1>3, <2>1, <2>2 DEF Deliver
  <2> QED  BY <2>3, <2>4, <2>5
<1>4. CASE Drop
  BY <1>4 DEF Drop
<1>5. ASSUME NEW i \in DOMAIN pulls, RunPull(i) PROVE UInv'
  <2>1. Running \in InFlight /\ Running \notin {End, Failed} /\ Spawned \notin {End, Failed}
        /\ Spawned \in InFlight
    BY DEF InFlight, Running, Spawned, End, Failed
  <2> QED  BY <1>5, <2>1 DEF RunPull
<1>6. ASSUME NEW i \in DOMAIN pulls, PullReturns(i) PROVE UInv'
  <2>1. PICK answer \in Answers :
          /\ pulls' = [pulls EXCEPT ![i] = ItemOf(answer, cursor + 1)]
          /\ cursor' = IF Produces(answer) THEN cursor + 1 ELSE cursor
          /\ eof' = (eof \/ Exhausts(answer))
    BY <1>6 DEF PullReturns
  <2> DEFINE item == ItemOf(answer, cursor + 1)
  <2>2. item \in Item /\ (item = End <=> Exhausts(answer))
    BY AnswerIsItem
  <2>3. pulls[i] \in InFlight /\ pulls[i] # End /\ item \notin InFlight /\ pending = i
    BY <1>6, <2>2, ItemsDiffer DEF PullReturns, InFlight, Running, End
  <2>4. /\ pulls' \in Seq(InFlight \cup Item) /\ DOMAIN pulls' = DOMAIN pulls
        /\ Len(pulls') = Len(pulls) /\ pulls'[i] = item
        /\ \A j \in DOMAIN pulls : j # i => pulls'[j] = pulls[j]
    BY <2>1, <2>2
  <2> HIDE DEF item
  <2>5. UploadTypeOK' /\ OnlyPendingRuns' /\ EndIsNoticed'
    BY <1>6, <2>1, <2>3, <2>4 DEF PullReturns, Exhausts
  <2>6. EofIsPulled'
    BY <2>1, <2>2, <2>3, <2>4
  <2>7. GivenIsPulled'
    BY <1>6, <2>3, <2>4 DEF PullReturns
  <2> QED  BY <2>5, <2>6, <2>7
<1>7. ASSUME NEW i \in DOMAIN pulls, JoinFails(i) PROVE UInv'
  <2>1. Failed \in Item /\ Failed \notin InFlight /\ Failed # End /\ End \notin InFlight
    BY ItemsDiffer
  <2> QED  BY <1>7, <2>1 DEF JoinFails
<1>8. CASE UNCHANGED uploadVars
  BY <1>8 DEF uploadVars
<1> QED  BY <1>1, <1>2, <1>3, <1>4, <1>5, <1>6, <1>7, <1>8 DEF UploadNext

LEMMA UploadAlways == UploadSpec => []UInv
BY UploadStarts, UploadStep, PTL DEF UploadSpec

--------------------------------------------------------------------------------
(* The theorems. *)

\* The source is never entered twice at once (poll_next keeps its pull in `pending`).
THEOREM SourceIsNotReentered == UploadSpec => []OnePullAtATime
<1>1. UInv => OnePullAtATime
  <2> SUFFICES ASSUME UInv PROVE OnePullAtATime
    OBVIOUS
  <2> DEFINE busy == {i \in DOMAIN pulls : pulls[i] \in InFlight}
  <2>1. busy \subseteq {pending}
    BY DEF UInv, OnlyPendingRuns
  <2>2. IsFiniteSet({pending}) /\ Cardinality({pending}) = 1
    BY FS_Singleton
  <2>3. IsFiniteSet(busy) /\ Cardinality(busy) <= 1
    BY <2>1, <2>2, FS_Subset
  <2> QED  BY <2>3 DEF OnePullAtATime
<1> QED  BY <1>1, UploadAlways, PTL

\* A source that has ended or failed is not asked again (the done flag).
THEOREM EndedIsLeftAlone == UploadSpec => NeverPulledAgain
<1> DEFINE Same == (\E i \in DOMAIN pulls : pulls[i] \in {End, Failed}) => Len(pulls') = Len(pulls)
<1>1. UInv /\ [UploadNext]_uploadVars => [Same]_uploadVars
  <2> SUFFICES ASSUME UInv, UploadNext, NEW i \in DOMAIN pulls, pulls[i] \in {End, Failed}
               PROVE  Len(pulls') = Len(pulls)
    BY DEF uploadVars
  <2> USE DEF UInv, UploadTypeOK, EndIsNoticed
  <2>1. pending # 0 \/ done
    OBVIOUS
  <2>2. CASE StartPull \/ AnextRaises
    BY <2>1, <2>2 DEF StartPull, AnextRaises, Polled
  <2>3. CASE Deliver \/ Drop
    BY <2>3 DEF Deliver, Drop
  <2>4. ASSUME NEW j \in DOMAIN pulls, RunPull(j) \/ PullReturns(j) \/ JoinFails(j)
        PROVE  Len(pulls') = Len(pulls)
    BY <2>4 DEF RunPull, PullReturns, JoinFails
  <2> QED  BY <2>2, <2>3, <2>4 DEF UploadNext
<1> QED  BY <1>1, UploadAlways, PTL DEF UploadSpec, NeverPulledAgain

\* The transport is told of an end only if the source said so (end_or_error).
THEOREM EndIsTheSources == UploadSpec => []EndsOnlyAtEof
<1>1. UInv => EndsOnlyAtEof
  BY DEF UInv, EofIsPulled, GivenIsPulled, EndsOnlyAtEof
<1> QED  BY <1>1, UploadAlways, PTL

--------------------------------------------------------------------------------
(* The order of an upload's chunks *)

\* The number of chunks the transport has: the last item of a finished stream is none.
Delivered == IF done THEN Len(out) - 1 ELSE Len(out)

\* They are the first ones of the source, in its order, and then at most one end.
ChunksThenEnd ==
  /\ done => Len(out) > 0 /\ out[Len(out)] \in {End, Failed}
  /\ \A i \in 1 .. Delivered : out[i] = Chunk(i)

\* What the source has produced beyond them is in the pull that the stream waits for.
OneAhead ==
  /\ pending = 0 => cursor = Delivered
  /\ pending # 0 =>
       \/ pulls[pending] = Chunk(cursor) /\ cursor = Delivered + 1
       \/ pulls[pending] \in InFlight \cup {End, Failed} /\ cursor = Delivered

LEMMA ChunkFields == \A n : Chunk(n).is = "chunk" /\ Chunk(n).n = n
BY DEF Chunk

LEMMA OrderKept ==
  UInv /\ ChunksThenEnd /\ OneAhead /\ [UploadNext]_uploadVars => ChunksThenEnd' /\ OneAhead'
<1> SUFFICES ASSUME UInv, ChunksThenEnd, OneAhead, [UploadNext]_uploadVars
             PROVE  ChunksThenEnd' /\ OneAhead'
  OBVIOUS
<1> USE DEF UInv, UploadTypeOK
<1>0. Delivered \in Int /\ cursor \in Nat /\ (~done => Delivered = Len(out)) /\ Len(out) \in Nat
  BY DEF Delivered
<1>1. CASE StartPull
  <2>1. /\ UNCHANGED <<done, cursor, out>> /\ pending = 0 /\ pending' = Len(pulls) + 1
        /\ pulls'[pending'] = Spawned
    BY <1>1 DEF StartPull
  <2> QED  BY <2>1 DEF ChunksThenEnd, OneAhead, Delivered, InFlight
<1>2. CASE AnextRaises
  <2>1. PICK item \in {End, Failed} : out' = Append(out, item)
    BY <1>2 DEF AnextRaises
  <2>2. item \in Item
    BY <2>1, ItemsDiffer
  <2>3. /\ Len(out') = Len(out) + 1 /\ out'[Len(out')] = item
        /\ \A i \in 1 .. Len(out) : out'[i] = out[i]
    BY <2>1, <2>2
  <2>4. ~done /\ done' /\ UNCHANGED <<pending, cursor>> /\ pending = 0
    BY <1>2 DEF AnextRaises, Polled
  <2>5. Delivered' = Delivered /\ Delivered = Len(out)
    BY <2>3, <2>4 DEF Delivered
  <2> QED  BY <2>1, <2>3, <2>4, <2>5 DEF ChunksThenEnd, OneAhead
<1>3. CASE Deliver
  <2> DEFINE item == pulls[pending]
  <2>1. /\ ~done /\ pending # 0 /\ item \notin InFlight /\ item \in Item /\ out' = Append(out, item)
        /\ done' = (item.is # "chunk") /\ pending' = 0 /\ UNCHANGED cursor
    BY <1>3 DEF Deliver, Polled
  <2> HIDE DEF item
  <2>2. /\ Len(out') = Len(out) + 1 /\ out'[Len(out')] = item
        /\ \A i \in 1 .. Len(out) : out'[i] = out[i]
    BY <2>1
  <2>3. CASE item = Chunk(cursor) /\ cursor = Delivered + 1
    <3>1. ~done' /\ Delivered' = Len(out) + 1 /\ Delivered = Len(out)
      BY <2>1, <2>2, <2>3 DEF Delivered, Chunk
    <3> QED  BY <2>1, <2>2, <2>3, <3>1 DEF ChunksThenEnd, OneAhead
  <2>4. CASE item \in {End, Failed} /\ cursor = Delivered
    <3>1. done' /\ Delivered' = Len(out) /\ Delivered = Len(out)
      <4>1. item.is # "chunk"
        BY <2>4 DEF End, Failed
      <4>2. done'
        BY <2>1, <4>1
      <4> QED  BY <2>1, <2>2, <4>2 DEF Delivered
    <3> QED  BY <2>1, <2>2, <2>4, <3>1 DEF ChunksThenEnd, OneAhead
  <2> QED  BY <2>1, <2>3, <2>4 DEF OneAhead, item
<1>4. CASE Drop
  BY <1>4 DEF Drop, ChunksThenEnd, OneAhead, Delivered
<1>5. ASSUME NEW i \in DOMAIN pulls, RunPull(i) PROVE ChunksThenEnd' /\ OneAhead'
  <2>1. /\ UNCHANGED <<done, pending, cursor, out>>
        /\ \A j \in DOMAIN pulls : pulls'[j] = IF j = i THEN Running ELSE pulls[j]
        /\ pulls[i] \in InFlight /\ pending = i
    BY <1>5 DEF RunPull, InFlight, OnlyPendingRuns
  <2>2. cursor = Delivered
    BY <2>1, ItemsDiffer DEF OneAhead
  <2> QED  BY <2>1, <2>2 DEF ChunksThenEnd, OneAhead, Delivered, InFlight
<1>6. ASSUME NEW i \in DOMAIN pulls, PullReturns(i) PROVE ChunksThenEnd' /\ OneAhead'
  <2>1. PICK answer \in Answers :
          /\ pulls' = [pulls EXCEPT ![i] = ItemOf(answer, cursor + 1)]
          /\ cursor' = IF Produces(answer) THEN cursor + 1 ELSE cursor
    BY <1>6 DEF PullReturns
  <2>2. /\ UNCHANGED <<done, pending, out>> /\ pulls[i] \in InFlight /\ pending = i /\ pending # 0
        /\ pulls'[i] = ItemOf(answer, cursor + 1)
    BY <1>6, <2>1 DEF PullReturns, InFlight, OnlyPendingRuns
  <2>3. cursor = Delivered
    BY <2>2, ItemsDiffer DEF OneAhead
  <2>4. answer \in {"bytes", "empty", "none", "stop", "raises"}
    BY DEF Answers
  <2>5. \/ Produces(answer) /\ ItemOf(answer, cursor + 1) = Chunk(cursor + 1)
        \/ ~Produces(answer) /\ ItemOf(answer, cursor + 1) \in {End, Failed}
    BY <2>4 DEF Produces, Exhausts, ItemOf
  <2> QED  BY <2>1, <2>2, <2>3, <2>5 DEF ChunksThenEnd, OneAhead, Delivered
<1>7. ASSUME NEW i \in DOMAIN pulls, JoinFails(i) PROVE ChunksThenEnd' /\ OneAhead'
  <2>1. /\ UNCHANGED <<done, pending, cursor, out>> /\ pulls[i] \in InFlight /\ pending = i
        /\ pulls'[i] = Failed
    BY <1>7 DEF JoinFails, OnlyPendingRuns
  <2>2. cursor = Delivered
    BY <2>1, ItemsDiffer DEF OneAhead
  <2> QED  BY <2>1, <2>2 DEF ChunksThenEnd, OneAhead, Delivered
<1>8. CASE UNCHANGED uploadVars
  BY <1>8 DEF uploadVars, ChunksThenEnd, OneAhead, Delivered
<1> QED  BY <1>1, <1>2, <1>3, <1>4, <1>5, <1>6, <1>7, <1>8 DEF UploadNext

LEMMA OrderAlways == UploadSpec => [](UInv /\ ChunksThenEnd /\ OneAhead)
<1>1. UploadInit => ChunksThenEnd /\ OneAhead
  <2> SUFFICES ASSUME UploadInit PROVE ChunksThenEnd /\ OneAhead
    OBVIOUS
  <2>1. ~done /\ Len(out) = 0 /\ pending = 0 /\ cursor = 0
    BY DEF UploadInit
  <2> QED  BY <2>1 DEF ChunksThenEnd, OneAhead, Delivered
<1> QED  BY <1>1, UploadAlways, OrderKept, PTL DEF UploadSpec

LEMMA OrderIsProperty ==
  ASSUME UInv, ChunksThenEnd, OneAhead
  PROVE  NothingReadAhead
<1> USE DEF UInv, UploadTypeOK
<1>1. Delivered \in Nat /\ Len(out) \in Nat
  BY DEF Delivered, ChunksThenEnd
<1>2. Given = 1 .. Delivered
  <2>1. \A i \in 1 .. Delivered : i \in DOMAIN out /\ out[i].is = "chunk"
    BY <1>1, ChunkFields DEF ChunksThenEnd, Delivered
  <2>2. \A i \in DOMAIN out : i \notin 1 .. Delivered => out[i].is # "chunk"
    BY <1>1 DEF ChunksThenEnd, Delivered, End, Failed
  <2> QED  BY <2>1, <2>2 DEF Given
<1>3. Cardinality(Given) = Delivered
  BY <1>1, <1>2, FS_Interval
<1>4. \A i \in Given : out[i].n = i
  BY <1>2, ChunkFields DEF ChunksThenEnd
<1>5. cursor <= Delivered + 1
  BY <1>1 DEF OneAhead
<1> QED  BY <1>3, <1>4, <1>5 DEF NothingReadAhead

\* The transport gets the chunks of the source in order, each once, and the source
\* is read at most the one chunk ahead that is being waited for (the stream keeps
\* its pull in `pending`, a dropped stream starts no other).
THEOREM ChunksInOrder == UploadSpec => []NothingReadAhead
BY OrderAlways, OrderIsProperty, PTL

--------------------------------------------------------------------------------
(* BufferedResponse: a complete body, with what was made of it cached. *)

BufferedSpec == Buffered!Init /\ [][Buffered!Next]_bufferedVars

\* What is cached as the text is the one decoding.
TextIsPlain == cachedText \in {None, Buffered!PlainText}

\* The cached JSON value is some call's, and a call is late only if there is one.
ValueIsSomebodys == cachedJson \in Calls \cup {None}
LateFoundIt == \A c \in Calls : late[c] => cachedJson # None

\* Who is in json.loads had found no value.
LoadingIsEarly == \A c \in Calls : call[c] = "loading" => Accessor[c] = "json" /\ ~late[c]

CInv == /\ call \in [Calls -> {"new", "loading", "returned", "raised"}]
        /\ late \in [Calls -> BOOLEAN]
        /\ DOMAIN text = Calls /\ DOMAIN value = Calls
        /\ TextIsPlain /\ ValueIsSomebodys /\ LateFoundIt /\ LoadingIsEarly
        /\ PlainTextIsOneDecoding /\ LateCallersShareOneValue

LEMMA BufferedStarts == Buffered!Init => CInv
BY DEF Buffered!Init, CInv, TextIsPlain, ValueIsSomebodys, LateFoundIt, LoadingIsEarly,
   PlainTextIsOneDecoding, LateCallersShareOneValue, Buffered!PlainTextIsOneDecoding,
   Buffered!LateCallersShareOneValue

LEMMA PlainTextFixed == response' = response => Buffered!PlainText' = Buffered!PlainText
BY DEF Buffered!PlainText, Buffered!DecodeBody

\* A call that takes the text gets the decoding, and leaves it in the cache.
LEMMA TextTaken ==
  ASSUME CInv, NEW c \in Calls, Buffered!TakeText(c), response' = response
  PROVE  /\ TextIsPlain' /\ PlainTextIsOneDecoding' /\ DOMAIN text' = Calls
<1>1. cachedText' = Buffered!PlainText
  BY DEF CInv, TextIsPlain, Buffered!TakeText, Buffered!Set
<1>2. text' = [text EXCEPT ![c] = Buffered!PlainText]
  BY DEF CInv, TextIsPlain, Buffered!TakeText, Buffered!Set
<1> QED
  BY <1>1, <1>2, PlainTextFixed
     DEF CInv, TextIsPlain, PlainTextIsOneDecoding, Buffered!PlainTextIsOneDecoding

\* A call that is made finds what is cached.
LEMMA CallMade ==
  ASSUME CInv, NEW c \in Calls, Buffered!Made(c), cachedJson' = cachedJson
  PROVE  /\ late' \in [Calls -> BOOLEAN] /\ LateFoundIt' /\ ValueIsSomebodys'
         /\ \A d \in Calls : late'[d] = IF d = c THEN cachedJson # None ELSE late[d]
<1>1. \A d \in Calls : late'[d] = IF d = c THEN cachedJson # None ELSE late[d]
  BY DEF CInv, Buffered!Made
<1>2. late' \in [Calls -> BOOLEAN]
  BY DEF CInv, Buffered!Made
<1> QED  BY <1>1, <1>2 DEF CInv, LateFoundIt, ValueIsSomebodys

LEMMA BufferedStep == CInv /\ [Buffered!Next]_bufferedVars => CInv'
<1> SUFFICES ASSUME CInv, [Buffered!Next]_bufferedVars PROVE CInv'
  OBVIOUS
<1> USE DEF CInv
<1>1. ASSUME NEW c \in Calls, Buffered!TextWithCodec(c) PROVE CInv'
  <2>1. /\ UNCHANGED <<response, cachedText, cachedJson, value>>
        /\ Accessor[c] = "codec" /\ Buffered!Made(c)
    BY <1>1 DEF Buffered!TextWithCodec, Buffered!caches
  <2>2. /\ call' \in [Calls -> {"new", "loading", "returned", "raised"}]
        /\ \A d \in Calls : d # c => call'[d] = call[d]
        /\ call'[c] # "loading"
    BY <1>1 DEF Buffered!TextWithCodec, Buffered!Return
  <2>3. DOMAIN text' = Calls /\ \A d \in Calls : d # c => text'[d] = text[d]
    BY <1>1 DEF Buffered!TextWithCodec
  <2>4. TextIsPlain' /\ PlainTextIsOneDecoding'
    BY <2>1, <2>3, PlainTextFixed
       DEF TextIsPlain, PlainTextIsOneDecoding, Buffered!PlainTextIsOneDecoding, Buffered!Plain
  <2>5. LoadingIsEarly' /\ LateCallersShareOneValue'
    BY <2>1, <2>2, CallMade
       DEF LoadingIsEarly, LateCallersShareOneValue, Buffered!LateCallersShareOneValue
  <2> QED  BY <2>1, <2>2, <2>3, <2>4, <2>5, CallMade
<1>2. ASSUME NEW c \in Calls, Buffered!Text(c) PROVE CInv'
  <2>1. /\ UNCHANGED <<response, cachedJson, value>>
        /\ Accessor[c] = "text" /\ Buffered!Made(c) /\ Buffered!TakeText(c)
        /\ call' = [call EXCEPT ![c] = "returned"]
    BY <1>2 DEF Buffered!Text, Buffered!Return
  <2>2. LoadingIsEarly' /\ LateCallersShareOneValue'
    BY <2>1, CallMade
       DEF LoadingIsEarly, LateCallersShareOneValue, Buffered!LateCallersShareOneValue
  <2> QED  BY <2>1, <2>2, CallMade, TextTaken
<1>3. ASSUME NEW c \in Calls, Buffered!JsonHit(c) PROVE CInv'
  <2>1. /\ UNCHANGED <<response, cachedText, cachedJson, text>>
        /\ Buffered!Made(c) /\ call' = [call EXCEPT ![c] = "returned"]
        /\ value' = [value EXCEPT ![c] = cachedJson]
    BY <1>3 DEF Buffered!JsonHit, Buffered!Return, Buffered!caches
  <2>2. TextIsPlain' /\ PlainTextIsOneDecoding'
    BY <2>1, PlainTextFixed
       DEF TextIsPlain, PlainTextIsOneDecoding, Buffered!PlainTextIsOneDecoding
  <2>3. LoadingIsEarly' /\ LateCallersShareOneValue'
    BY <2>1, CallMade
       DEF LoadingIsEarly, LateCallersShareOneValue, Buffered!LateCallersShareOneValue
  <2> QED  BY <2>1, <2>2, <2>3, CallMade
<1>4. ASSUME NEW c \in Calls, Buffered!JsonMiss(c) PROVE CInv'
  <2>1. /\ UNCHANGED <<response, cachedJson, value>> /\ cachedJson = None
        /\ Accessor[c] = "json" /\ Buffered!Made(c) /\ Buffered!TakeText(c)
        /\ call' = [call EXCEPT ![c] = "loading"]
    BY <1>4 DEF Buffered!JsonMiss, Buffered!Return
  <2>2. LoadingIsEarly' /\ LateCallersShareOneValue'
    BY <2>1, CallMade
       DEF LoadingIsEarly, LateCallersShareOneValue, Buffered!LateCallersShareOneValue
  <2> QED  BY <2>1, <2>2, CallMade, TextTaken
<1>5. ASSUME NEW c \in Calls, Buffered!JsonLoaded(c) PROVE CInv'
  <2>1. /\ UNCHANGED <<response, cachedText, text, late>>
        /\ call[c] = "loading" /\ call' = [call EXCEPT ![c] = "returned"]
        /\ value' = [value EXCEPT ![c] = c]
        /\ cachedJson' = IF cachedJson = None THEN c ELSE cachedJson
    BY <1>5 DEF Buffered!JsonLoaded, Buffered!Return, Buffered!Set
  <2>2. TextIsPlain' /\ PlainTextIsOneDecoding'
    BY <2>1, PlainTextFixed
       DEF TextIsPlain, PlainTextIsOneDecoding, Buffered!PlainTextIsOneDecoding
  <2>3. ValueIsSomebodys' /\ LateFoundIt' /\ LoadingIsEarly'
    BY <2>1, NoneAssumption DEF ValueIsSomebodys, LateFoundIt, LoadingIsEarly
  <2>4. LateCallersShareOneValue'
    BY <2>1 DEF LoadingIsEarly, LateFoundIt,
                LateCallersShareOneValue, Buffered!LateCallersShareOneValue
  <2> QED  BY <2>1, <2>2, <2>3, <2>4
<1>6. ASSUME NEW c \in Calls, Buffered!JsonRaises(c) PROVE CInv'
  <2>1. /\ UNCHANGED <<response, cachedText, cachedJson, text, value, late>>
        /\ call' = [call EXCEPT ![c] = "raised"]
    BY <1>6 DEF Buffered!JsonRaises, Buffered!Return, Buffered!caches
  <2>2. TextIsPlain' /\ PlainTextIsOneDecoding'
    BY <2>1, PlainTextFixed
       DEF TextIsPlain, PlainTextIsOneDecoding, Buffered!PlainTextIsOneDecoding
  <2> QED
    BY <2>1, <2>2 DEF ValueIsSomebodys, LateFoundIt, LoadingIsEarly,
                      LateCallersShareOneValue, Buffered!LateCallersShareOneValue
<1>7. CASE UNCHANGED bufferedVars
  <2>1. TextIsPlain' /\ PlainTextIsOneDecoding'
    BY <1>7, PlainTextFixed
       DEF bufferedVars, TextIsPlain, PlainTextIsOneDecoding, Buffered!PlainTextIsOneDecoding
  <2> QED
    BY <1>7, <2>1 DEF bufferedVars, ValueIsSomebodys, LateFoundIt, LoadingIsEarly,
                      LateCallersShareOneValue, Buffered!LateCallersShareOneValue
<1> QED  BY <1>1, <1>2, <1>3, <1>4, <1>5, <1>6, <1>7 DEF Buffered!Next

LEMMA BufferedAlways == BufferedSpec => []CInv
BY BufferedStarts, BufferedStep, PTL DEF BufferedSpec

\* Whoever filled the cache, text() and json() see one decoding of the body: the
\* cell is only ever filled with it.
THEOREM PlainTextIsOne == BufferedSpec => []PlainTextIsOneDecoding
BY BufferedAlways, PTL DEF CInv

\* A value that is cached stays: who comes later, gets that object.
THEOREM ValueIsShared == BufferedSpec => []LateCallersShareOneValue
BY BufferedAlways, PTL DEF CInv

--------------------------------------------------------------------------------
(* The composition: each kind of object behaves as it does alone. *)

\* A step of Bodies is, for each kind of object, a step of that kind or none.
LEMMA PartsStart == AllInit => Init /\ UploadInit /\ Buffered!Init
BY DEF AllInit

LEMMA PartsStep ==
  [AllNext]_allVars => [Next]_vars /\ [UploadNext]_uploadVars /\ [Buffered!Next]_bufferedVars
<1>1. Uploads => UploadNext /\ UNCHANGED <<vars, bufferedVars>>
  BY DEF Uploads
<1>2. Streams => Next /\ UNCHANGED <<uploadVars, bufferedVars>>
  BY DEF Streams
<1>3. Buffers => Buffered!Next /\ UNCHANGED <<vars, uploadVars>>
  BY DEF Buffers
<1>4. UNCHANGED allVars => UNCHANGED <<vars, uploadVars, bufferedVars>>
  BY DEF allVars
<1> QED  BY <1>1, <1>2, <1>3, <1>4 DEF AllNext

\* The fairness of AllSpec is not needed for what never goes wrong.
Parts == Init /\ [][Next]_vars /\ UploadSpec /\ BufferedSpec

LEMMA AllHasParts == AllSpec => Parts
BY PartsStart, PartsStep, PTL DEF AllSpec, Parts, UploadSpec, BufferedSpec

\* Every body that crosses between Python and the transport keeps what its kind
\* promises: what the run checks on a small instance.
THEOREM BodiesKeepTheirPromises ==
  AllSpec => /\ []EachChunkOnce /\ []EndIsHonest /\ ReadsAreAtomic
             /\ []OnePullAtATime /\ []NothingReadAhead /\ []EndsOnlyAtEof /\ NeverPulledAgain
             /\ []PlainTextIsOneDecoding /\ []LateCallersShareOneValue
<1>1. Parts => []EachChunkOnce /\ []EndIsHonest /\ ReadsAreAtomic
  BY BodyIsSharedOut, EndsAreHonest, StreamRefinesContract, PTL DEF Parts, Spec
<1>2. Parts => []OnePullAtATime /\ []NothingReadAhead /\ []EndsOnlyAtEof /\ NeverPulledAgain
  BY SourceIsNotReentered, ChunksInOrder, EndIsTheSources, EndedIsLeftAlone DEF Parts
<1>3. Parts => []PlainTextIsOneDecoding /\ []LateCallersShareOneValue
  BY PlainTextIsOne, ValueIsShared DEF Parts
<1> QED  BY AllHasParts, <1>1, <1>2, <1>3
================================================================================
