------------------------ MODULE StudyArchive_proofs ------------------------
(***************************************************************************)
(* Proofs about StudyArchive, for any number of sessions and calls and     *)
(* every set of faults.                                                    *)
(***************************************************************************)
EXTENDS StudyArchive, FiniteSetTheorems, WellFoundedInduction, TLAPS

USE ArchiveConstants DEF Sessions, Ended, NoSeq

-----------------------------------------------------------------------------
(* Types of what the steps write *)

\* Sequence numbers come from the rows: a call that loses its row gives its
\* number to the next.
RowsNumbered == \A s \in Sessions : \A i \in DOMAIN rows[s] : rows[s][i].seq = i

LEMMA NextSeqCounts ==
    ASSUME rows \in [Sessions -> Seq(Record)], RowsNumbered, NEW s \in Sessions
    PROVE  /\ Len(rows[s]) \in Nat /\ DOMAIN rows[s] = 1..Len(rows[s])
           /\ NextSeq(s) = Len(rows[s]) + 1
<1> DEFINE n == Len(rows[s])
           seqs == {0} \cup {rows[s][i].seq : i \in DOMAIN rows[s]}
<1>1. n \in Nat /\ DOMAIN rows[s] = 1..n
  OBVIOUS
<1>2. seqs = 0..n
  <2>1. \A i \in 1..n : rows[s][i].seq = i
    BY <1>1 DEF RowsNumbered
  <2>2. \A x \in seqs : x \in 0..n
    BY <1>1, <2>1
  <2>3. \A x \in 0..n : x = 0 \/ (x \in 1..n /\ rows[s][x].seq = x)
    BY <1>1, <2>1
  <2>4. \A x \in 0..n : x \in seqs
    BY <1>1, <2>3
  <2> QED BY <2>2, <2>4
<1> HIDE DEF n
<1>3. Max(0..n) = n
  <2>1. n \in 0..n /\ \A y \in 0..n : n >= y
    BY <1>1
  <2>2. ASSUME NEW x \in 0..n, \A y \in 0..n : x >= y PROVE x = n
    <3>1. x >= n
      BY <2>1, <2>2
    <3> QED BY <1>1, <3>1
  <2> QED BY <2>1, <2>2 DEF Max
<1>4. NextSeq(s) = n + 1
  <2>1. NextSeq(s) = 1 + Max(seqs)
    BY DEF NextSeq
  <2> HIDE DEF seqs
  <2> QED BY <1>1, <1>2, <1>3, <2>1
<1> QED
  BY <1>1, <1>4 DEF n

LEMMA MovedType ==
    ASSUME NEW e \in Exports, NEW m \in SUBSET Sessions
    PROVE  [e EXCEPT !.moved = m] \in Exports
BY DEF Exports

LEMMA StageType ==
    ASSUME NEW e \in Exports, NEW n \in 0..4
    PROVE  [e EXCEPT !.stage = n] \in Exports /\ [e EXCEPT !.stage = n].stage = n
BY DEF Exports

LEMMA DoneType ==
    ASSUME NEW e \in Exports, NEW d \in SUBSET Sessions
    PROVE  [e EXCEPT !.done = d] \in Exports /\ [e EXCEPT !.done = d].stage = e.stage
BY DEF Exports

LEMMA CopyType ==
    ASSUME NEW e \in Exports, NEW c \in Copy
    PROVE  [e EXCEPT !.copy = c] \in Exports /\ [e EXCEPT !.copy = c].stage = e.stage
BY DEF Exports

LEMMA UnreadType ==
    ASSUME NEW e \in Exports, NEW u \in SUBSET Sessions
    PROVE  [e EXCEPT !.unread = u] \in Exports /\ [e EXCEPT !.unread = u].stage = e.stage
BY DEF Exports

LEMMA LinesType ==
    ASSUME NEW e \in Exports, NEW s \in Sessions, NEW n \in Nat
    PROVE  [e EXCEPT !.lines[s] = n] \in Exports /\ [e EXCEPT !.lines[s] = n].stage = e.stage
<1>1. e.lines \in [Sessions -> Nat \cup {-1}]
  BY DEF Exports
<1>2. [e.lines EXCEPT ![s] = n] \in [Sessions -> Nat \cup {-1}]
  BY <1>1
<1> QED
  BY <1>2 DEF Exports

LEMMA LogsType ==
    ASSUME NEW e \in Exports, NEW s \in Sessions, NEW l \in Seq(Record)
    PROVE  [e EXCEPT !.logs[s] = l] \in Exports /\ [e EXCEPT !.logs[s] = l].stage = e.stage
<1>1. e.logs \in [Sessions -> Seq(Record)]
  BY DEF Exports
<1>2. [e.logs EXCEPT ![s] = l] \in [Sessions -> Seq(Record)]
  BY <1>1
<1> QED
  BY <1>2 DEF Exports

LEMMA SumsType ==
    ASSUME NEW e \in Exports, NEW s \in Sessions, NEW l \in Seq(Record)
    PROVE  [e EXCEPT !.sums[s] = l] \in Exports /\ [e EXCEPT !.sums[s] = l].stage = e.stage
<1>1. e.sums \in [Sessions -> Seq(Record)]
  BY DEF Exports
<1>2. [e.sums EXCEPT ![s] = l] \in [Sessions -> Seq(Record)]
  BY <1>1
<1> QED
  BY <1>2 DEF Exports

LEMMA HashingType ==
    ASSUME NEW e \in Exports, NEW h \in Sessions \cup {0}
    PROVE  [e EXCEPT !.hashing = h] \in Exports /\ [e EXCEPT !.hashing = h].stage = e.stage
BY DEF Exports

LEMMA AfterType ==
    ASSUME NEW e \in Exports, e.stage < 4
    PROVE  After(e) \in Exports
<1>1. e.stage + 1 \in 0..4
  BY DEF Exports
<1> DEFINE f == [e EXCEPT !.stage = e.stage + 1]
<1>2. f \in Exports
  BY <1>1, StageType
<1>3. After(e) = [f EXCEPT !.done = {}]
  BY DEF After, Exports
<1> HIDE DEF f
<1> QED
  BY <1>2, <1>3, DoneType, ZenonT(30)

-----------------------------------------------------------------------------
(* The types, and one call at a time under the write lock *)

OneInHand ==
    /\ hand = {} \/ \E c \in Call : hand = {c}
    /\ \A c \in hand : c.at = "status" => c.set # "none"

TypeInv == TypeOK /\ OneInHand /\ RowsNumbered

\* What TypeOK asks of the session's records, and of the archive
Stored ==
    /\ status \in [Sessions -> {"active"} \cup Ended]
    /\ rows \in [Sessions -> Seq(Record)]
    /\ log \in [Sessions -> Seq(Record)]
    /\ resolved \subseteq Sessions
    /\ stopped \in BOOLEAN
    /\ calls \in [Sessions -> 0..MaxCalls]
    /\ wrong \in [Sessions -> SUBSET Wrongs]
    /\ export \in Exports

LEMMA TypeInvParts ==
    TypeInv <=> Stored /\ OneInHand /\ RowsNumbered
<1>1. ASSUME OneInHand
      PROVE  Cardinality(hand) <= 1 /\ \A c \in hand : c \in Call
  <2>1. CASE hand = {}
    BY <2>1, FS_EmptySet
  <2>2. CASE hand # {}
    <3>1. PICK c \in Call : hand = {c}
      BY <1>1, <2>2 DEF OneInHand
    <3> QED BY <3>1, FS_Singleton
  <2> QED BY <2>1, <2>2
<1> QED
  BY <1>1 DEF TypeInv, TypeOK, Stored

LEMMA TypeInvInit == Init => TypeInv
<1> SUFFICES ASSUME Init PROVE TypeInv
  OBVIOUS
<1>1. /\ status \in [Sessions -> {"active"} \cup Ended] /\ rows \in [Sessions -> Seq(Record)]
      /\ log \in [Sessions -> Seq(Record)] /\ Nothing \in [Sessions -> Seq(Record)]
  BY DEF Init, Nothing
<1>2. [status |-> status, rows |-> Nothing] \in Copy
  BY <1>1 DEF Copy
<1>3. [s \in Sessions |-> -1] \in [Sessions -> Nat \cup {-1}]
  OBVIOUS
<1>4. export \in Exports
  BY <1>1, <1>2, <1>3 DEF Init, Exports
<1>5. Stored
  <2>1. 0 \in 0..MaxCalls
    OBVIOUS
  <2>2. calls \in [Sessions -> 0..MaxCalls] /\ wrong \in [Sessions -> SUBSET Wrongs]
    BY <2>1 DEF Init
  <2>3. resolved \subseteq Sessions /\ stopped \in BOOLEAN
    BY DEF Init
  <2> QED BY <1>1, <1>4, <2>2, <2>3 DEF Stored
<1>6. OneInHand /\ RowsNumbered
  BY DEF Init, OneInHand, RowsNumbered, Nothing
<1> QED
  BY <1>5, <1>6, TypeInvParts

LEMMA MovedKeeps ==
    ASSUME export \in Exports, NEW s \in Sessions, Moved(s)
    PROVE  export' \in Exports
<1>1. export.moved \cup {s} \in SUBSET Sessions
  BY DEF Exports
<1> QED
  BY <1>1, MovedType DEF Moved

LEMMA GoesWrongType ==
    ASSUME wrong \in [Sessions -> SUBSET Wrongs], NEW s \in Sessions, NEW what \in SUBSET Wrongs,
           GoesWrong(s, what)
    PROVE  /\ wrong' \in [Sessions -> SUBSET Wrongs]
           /\ wrong'[s] = wrong[s] \cup what
           /\ \A t \in Sessions \ {s} : wrong'[t] = wrong[t]
BY DEF GoesWrong

LEMMA CallsAreCounted ==
    ASSUME Stored, NEW s \in Sessions
    PROVE  calls[s] \in Nat /\ calls[s] + 1 \in Nat
<1>1. calls[s] \in 0..MaxCalls
  BY DEF Stored
<1> QED
  BY <1>1

\* The call that Insert leaves in hand
Line(s, kind, seq) == [seq |-> seq, kind |-> kind, call |-> calls[s] + 1]
InCall(s, kind, seq, set) == [s |-> s, set |-> set, at |-> "line", line |-> Line(s, kind, seq)]

LEMMA InCallType ==
    ASSUME Stored, NEW s \in Sessions, NEW kind \in Kinds, NEW seq \in Nat,
           NEW set \in Ended \cup {"none"}
    PROVE  /\ Line(s, kind, seq) \in Record /\ InCall(s, kind, seq, set) \in Call
           /\ Line(s, kind, seq).seq = seq /\ Line(s, kind, seq).call = calls[s] + 1
           /\ InCall(s, kind, seq, set).line = Line(s, kind, seq)
           /\ InCall(s, kind, seq, set).s = s /\ InCall(s, kind, seq, set).at = "line"
<1>1. calls[s] + 1 \in Nat
  BY CallsAreCounted
<1>2. Line(s, kind, seq) \in Record
  BY <1>1 DEF Line, Record
<1> QED
  BY <1>2 DEF Line, InCall, Call

\* What Insert does: the row or none, the number, and the call in hand.
LEMMA InsertDoes ==
    ASSUME TypeInv, NEW s \in Sessions, NEW kind \in Kinds, NEW set \in Ended \cup {"none"},
           NEW late \in SUBSET {"late"}, Insert(s, kind, set, late)
    PROVE  LET n == Len(rows[s])
           IN  /\ hand = {} /\ calls[s] < MaxCalls /\ n \in Nat
               /\ calls' = [calls EXCEPT ![s] = calls[s] + 1]
               /\ \E seq \in {NoSeq, n + 1} :
                    /\ hand' = {InCall(s, kind, seq, set)}
                    /\ \/ /\ seq = n + 1
                          /\ rows' = [rows EXCEPT ![s] = Append(rows[s], Line(s, kind, seq))]
                          /\ GoesWrong(s, late)
                       \/ rows' = rows /\ GoesWrong(s, {"row"})
               /\ export' \in Exports
<1> DEFINE n == Len(rows[s])
<1>1. n \in Nat /\ NextSeq(s) = n + 1
  BY NextSeqCounts DEF TypeInv, TypeOK
<1>2. export' \in Exports
  BY MovedKeeps DEF Insert, TypeInv, TypeOK
<1>3. hand = {} /\ calls[s] < MaxCalls
  BY DEF Insert, Free
<1>4. ASSUME NEW seq, InHand(s, kind, seq, set)
      PROVE  /\ calls' = [calls EXCEPT ![s] = calls[s] + 1]
             /\ hand' = {InCall(s, kind, seq, set)}
  BY <1>3, <1>4 DEF InHand, InCall, Line
<1>5. CASE /\ rows' = [rows EXCEPT ![s] =
                 Append(@, [seq |-> NextSeq(s), kind |-> kind, call |-> calls[s] + 1])]
           /\ InHand(s, kind, NextSeq(s), set)
           /\ GoesWrong(s, late)
  <2>1. rows' = [rows EXCEPT ![s] = Append(rows[s], Line(s, kind, n + 1))]
    BY <1>1, <1>5 DEF Line
  <2>2. InHand(s, kind, n + 1, set)
    BY <1>1, <1>5
  <2> HIDE DEF n
  <2> QED BY <1>1, <1>2, <1>3, <1>4, <1>5, <2>1, <2>2 DEF n
<1>6. CASE /\ MayFail("row", s)
           /\ \E seq \in {NoSeq, NextSeq(s)} : InHand(s, kind, seq, set)
           /\ GoesWrong(s, {"row"})
           /\ UNCHANGED rows
  <2>1. PICK seq \in {NoSeq, n + 1} : InHand(s, kind, seq, set)
    BY <1>1, <1>6
  <2> HIDE DEF n
  <2> QED BY <1>1, <1>2, <1>3, <1>4, <1>6, <2>1 DEF n
<1> QED
  BY <1>5, <1>6 DEF Insert

LEMMA InsertKeepsTypes ==
    ASSUME TypeInv, NEW s \in Sessions, NEW kind \in Kinds, NEW set \in Ended \cup {"none"},
           NEW late \in SUBSET {"late"}, Insert(s, kind, set, late),
           status' = status, log' = log, stopped' = stopped, resolved' \in SUBSET Sessions
    PROVE  TypeInv'
<1> DEFINE n == Len(rows[s])
<1>1. Stored /\ OneInHand /\ RowsNumbered
  BY TypeInvParts
<1>2. /\ calls[s] < MaxCalls /\ n \in Nat
      /\ calls' = [calls EXCEPT ![s] = calls[s] + 1]
      /\ export' \in Exports
  BY InsertDoes
<1>3. PICK seq \in {NoSeq, n + 1} :
        /\ hand' = {InCall(s, kind, seq, set)}
        /\ \/ /\ seq = n + 1
              /\ rows' = [rows EXCEPT ![s] = Append(rows[s], Line(s, kind, seq))]
              /\ GoesWrong(s, late)
           \/ rows' = rows /\ GoesWrong(s, {"row"})
  BY InsertDoes
<1>11. seq \in Nat
  BY <1>2
<1>10. rows[s] \in Seq(Record) /\ n = Len(rows[s])
  BY <1>1 DEF Stored
<1> HIDE DEF n
<1>4. /\ Line(s, kind, seq) \in Record /\ InCall(s, kind, seq, set) \in Call
      /\ Line(s, kind, seq).seq = seq /\ InCall(s, kind, seq, set).at = "line"
  BY <1>1, <1>11, InCallType
<1>5. calls' \in [Sessions -> 0..MaxCalls]
  <2>1. calls \in [Sessions -> 0..MaxCalls]
    BY <1>1 DEF Stored
  <2>2. calls[s] + 1 \in 0..MaxCalls
    <3>1. calls[s] \in 0..MaxCalls
      BY <2>1
    <3> QED BY <1>2, <3>1
  <2> QED BY <1>2, <2>1, <2>2
<1>6. wrong' \in [Sessions -> SUBSET Wrongs]
  <2>1. late \in SUBSET Wrongs /\ {"row"} \in SUBSET Wrongs
    BY DEF Wrongs
  <2> QED BY <1>1, <1>3, <2>1, GoesWrongType DEF Stored
<1>7. rows' \in [Sessions -> Seq(Record)] /\ RowsNumbered'
  <2>1. rows \in [Sessions -> Seq(Record)] /\ \A t \in Sessions : \A i \in DOMAIN rows[t] : rows[t][i].seq = i
    BY <1>1 DEF Stored, RowsNumbered
  <2>2. CASE rows' = rows
    BY <2>1, <2>2 DEF RowsNumbered
  <2>3. CASE seq = n + 1 /\ rows' = [rows EXCEPT ![s] = Append(rows[s], Line(s, kind, seq))]
    <3> DEFINE r == Line(s, kind, seq)
    <3>1. r \in Record /\ r.seq = n + 1
      BY <1>4, <2>3
    <3> HIDE DEF r
    <3>2. rows' = [rows EXCEPT ![s] = Append(rows[s], r)]
      BY <2>3 DEF r
    <3>3. rows[s] \in Seq(Record) /\ Append(rows[s], r) \in Seq(Record)
      BY <1>10, <3>1
    <3>4. rows' \in [Sessions -> Seq(Record)]
      BY <2>1, <3>2, <3>3
    <3>5. \A i \in DOMAIN Append(rows[s], r) : Append(rows[s], r)[i].seq = i
      <4>1. \A i \in 1..n : rows[s][i].seq = i
        BY <1>10, <2>1
      <4>2. /\ DOMAIN Append(rows[s], r) = 1..(n + 1)
            /\ Append(rows[s], r)[n + 1] = r
            /\ \A i \in 1..n : Append(rows[s], r)[i] = rows[s][i]
        BY <1>10, <3>1
      <4>3. \A i \in 1..(n + 1) : i \in 1..n \/ i = n + 1
        BY <1>2
      <4> QED BY <3>1, <4>1, <4>2, <4>3
    <3>6. \A t \in Sessions : rows'[t] = IF t = s THEN Append(rows[s], r) ELSE rows[t]
      BY <2>1, <3>2
    <3> QED BY <2>1, <3>4, <3>5, <3>6 DEF RowsNumbered
  <2> QED BY <1>3, <2>2, <2>3
<1>8. OneInHand'
  BY <1>3, <1>4 DEF OneInHand
<1>9. Stored'
  BY <1>1, <1>2, <1>5, <1>6, <1>7 DEF Stored
<1> QED
  BY <1>7, <1>8, <1>9, TypeInvParts, PTL

LEMMA WritesKeepTypes ==
    ASSUME TypeInv, Writes
    PROVE  TypeInv'
<1>1. Stored /\ OneInHand /\ RowsNumbered
  BY TypeInvParts
<1>2. resolved \in SUBSET Sessions
  BY <1>1 DEF Stored
<1>3. ASSUME NEW s \in Sessions, Resolve(s) \/ DropEvent(s) PROVE TypeInv'
  <2>1. /\ resolved' \subseteq Sessions
        /\ UNCHANGED <<status, rows, log, hand, stopped, calls, wrong, export>>
    BY <1>2, <1>3 DEF Resolve, DropEvent
  <2>2. Stored' /\ OneInHand' /\ RowsNumbered'
    BY <1>1, <2>1 DEF Stored, OneInHand, RowsNumbered
  <2> QED BY <2>2, TypeInvParts, PTL
<1>4. ASSUME NEW s \in Sessions, RecordEvent(s) PROVE TypeInv'
  <2>1. PICK late \in SUBSET {"late"} : Insert(s, "event", "none", late)
    BY <1>4 DEF RecordEvent
  <2>2. status' = status /\ log' = log /\ stopped' = stopped /\ resolved' \in SUBSET Sessions
    BY <1>2, <1>4 DEF RecordEvent
  <2>3. "event" \in Kinds
    BY DEF Kinds
  <2> QED BY <2>1, <2>2, <2>3, InsertKeepsTypes
<1>5. ASSUME NEW s \in Sessions, RecordRender(s) PROVE TypeInv'
  <2>1. /\ Insert(s, "render", "none", {}) /\ "render" \in Kinds
        /\ status' = status /\ log' = log /\ stopped' = stopped /\ resolved' \in SUBSET Sessions
    BY <1>2, <1>5 DEF RecordRender, Kinds
  <2> QED BY <2>1, InsertKeepsTypes
<1>6. ASSUME NEW s \in Sessions, NEW outcome \in Ended, EndSession(s, outcome) PROVE TypeInv'
  <2>1. /\ Insert(s, "session_end", outcome, {}) /\ "session_end" \in Kinds
        /\ status' = status /\ log' = log /\ stopped' = stopped /\ resolved' \in SUBSET Sessions
    BY <1>2, <1>6 DEF EndSession, Kinds
  <2> QED BY <2>1, InsertKeepsTypes
<1>7. ASSUME NEW s \in Sessions, NEW outcome \in Ended, EndUnlogged(s, outcome) PROVE TypeInv'
  <2>1. /\ status' = [status EXCEPT ![s] = outcome]
        /\ GoesWrong(s, {"endless"}) /\ Moved(s)
        /\ UNCHANGED <<rows, log, hand, resolved, stopped, calls>>
    BY <1>7 DEF EndUnlogged
  <2>2. status' \in [Sessions -> {"active"} \cup Ended]
    BY <1>1, <2>1 DEF Stored
  <2>3. wrong' \in [Sessions -> SUBSET Wrongs]
    <3>1. {"endless"} \in SUBSET Wrongs
      BY DEF Wrongs
    <3> QED BY <1>1, <2>1, <3>1, GoesWrongType DEF Stored
  <2>4. export' \in Exports
    BY <1>1, <2>1, MovedKeeps DEF Stored
  <2>5. Stored'
    BY <1>1, <2>1, <2>2, <2>3, <2>4 DEF Stored
  <2>6. OneInHand' /\ RowsNumbered'
    BY <1>1, <2>1 DEF OneInHand, RowsNumbered
  <2> QED BY <2>5, <2>6, TypeInvParts, PTL
<1>8. ASSUME NEW c \in hand PROVE c \in Call /\ hand = {c} /\ (c.at = "status" => c.set # "none")
  BY <1>1 DEF OneInHand
<1>9. ASSUME NEW c \in hand, AppendLine(c) PROVE TypeInv'
  <2>1. c \in Call /\ hand = {c} /\ c.s \in Sessions /\ c.line \in Record
    BY <1>8 DEF Call
  <2>2. /\ \/ log' = [log EXCEPT ![c.s] = Append(@, c.line)] /\ wrong' = wrong
           \/ GoesWrong(c.s, {"line"}) /\ log' = log
        /\ hand' = (hand \ {c}) \cup (IF c.set = "none" THEN {} ELSE {[c EXCEPT !.at = "status"]})
        /\ Moved(c.s)
        /\ UNCHANGED <<status, rows, resolved, stopped, calls>>
    BY <1>9 DEF AppendLine
  <2>3. log' \in [Sessions -> Seq(Record)]
    <3>1. log \in [Sessions -> Seq(Record)]
      BY <1>1 DEF Stored
    <3>2. log[c.s] \in Seq(Record)
      BY <2>1, <3>1
    <3>3. Append(log[c.s], c.line) \in Seq(Record)
      BY <2>1, <3>2
    <3> QED BY <2>1, <2>2, <3>1, <3>3
  <2>4. wrong' \in [Sessions -> SUBSET Wrongs]
    <3>1. {"line"} \in SUBSET Wrongs /\ wrong \in [Sessions -> SUBSET Wrongs]
      BY <1>1 DEF Wrongs, Stored
    <3> QED BY <2>1, <2>2, <3>1, GoesWrongType
  <2>5. export' \in Exports
    BY <1>1, <2>1, <2>2, MovedKeeps DEF Stored
  <2>6. OneInHand'
    <3> DEFINE d == [c EXCEPT !.at = "status"]
    <3>1. d \in Call /\ d.at = "status" /\ d.set = c.set
      BY <2>1 DEF Call
    <3>2. hand' = IF c.set = "none" THEN {} ELSE {d}
      BY <2>1, <2>2
    <3> HIDE DEF d
    <3> QED BY <3>1, <3>2 DEF OneInHand
  <2>7. Stored'
    BY <1>1, <2>2, <2>3, <2>4, <2>5 DEF Stored
  <2>8. RowsNumbered'
    BY <1>1, <2>2 DEF RowsNumbered
  <2> QED BY <2>6, <2>7, <2>8, TypeInvParts, PTL
<1>10. ASSUME NEW c \in hand, SetStatus(c) PROVE TypeInv'
  <2>1. c \in Call /\ hand = {c} /\ c.s \in Sessions /\ c.set \in Ended
    BY <1>8, <1>10 DEF Call, SetStatus
  <2>2. /\ \/ /\ status' = [status EXCEPT ![c.s] = IF @ = "active" THEN c.set ELSE @]
              /\ wrong' = wrong
           \/ GoesWrong(c.s, {"end"}) /\ status' = status
        /\ hand' = hand \ {c}
        /\ Moved(c.s)
        /\ UNCHANGED <<rows, log, resolved, stopped, calls>>
    BY <1>10 DEF SetStatus
  <2>3. status' \in [Sessions -> {"active"} \cup Ended]
    <3>1. status \in [Sessions -> {"active"} \cup Ended]
      BY <1>1 DEF Stored
    <3> QED BY <2>1, <2>2, <3>1
  <2>4. wrong' \in [Sessions -> SUBSET Wrongs]
    <3>1. {"end"} \in SUBSET Wrongs /\ wrong \in [Sessions -> SUBSET Wrongs]
      BY <1>1 DEF Wrongs, Stored
    <3> QED BY <2>1, <2>2, <3>1, GoesWrongType
  <2>5. export' \in Exports
    BY <1>1, <2>1, <2>2, MovedKeeps DEF Stored
  <2>6. OneInHand'
    BY <2>1, <2>2 DEF OneInHand
  <2>7. Stored'
    BY <1>1, <2>2, <2>3, <2>4, <2>5 DEF Stored
  <2>8. RowsNumbered'
    BY <1>1, <2>2 DEF RowsNumbered
  <2> QED BY <2>6, <2>7, <2>8, TypeInvParts, PTL
<1>11. ASSUME NEW c \in hand, Crash(c) PROVE TypeInv'
  <2>1. c \in Call /\ c.s \in Sessions
    BY <1>8 DEF Call
  <2>2. PICK what \in SUBSET {"line", "end"} : GoesWrong(c.s, what)
    BY <1>11 DEF Crash
  <2>3. /\ hand' = {} /\ resolved' = {}
        /\ UNCHANGED <<status, rows, log, stopped, calls, export>>
    BY <1>11 DEF Crash
  <2>4. wrong' \in [Sessions -> SUBSET Wrongs]
    <3>1. what \in SUBSET Wrongs /\ wrong \in [Sessions -> SUBSET Wrongs]
      BY <1>1 DEF Wrongs, Stored
    <3> QED BY <2>1, <2>2, <3>1, GoesWrongType
  <2>5. Stored'
    BY <1>1, <2>3, <2>4 DEF Stored
  <2>6. OneInHand' /\ RowsNumbered'
    BY <1>1, <2>3 DEF OneInHand, RowsNumbered
  <2> QED BY <2>5, <2>6, TypeInvParts, PTL
<1>12. ASSUME CloseStudy PROVE TypeInv'
  <2>1. /\ stopped' \in BOOLEAN /\ resolved' = {}
        /\ UNCHANGED <<status, rows, log, hand, calls, wrong, export>>
    BY <1>12 DEF CloseStudy
  <2>2. Stored' /\ OneInHand' /\ RowsNumbered'
    BY <1>1, <2>1 DEF Stored, OneInHand, RowsNumbered
  <2> QED BY <2>2, TypeInvParts, PTL
<1> QED
  BY <1>3, <1>4, <1>5, <1>6, <1>7, <1>9, <1>10, <1>11, <1>12 DEF Writes

LEMMA ArchiveKeepsTypes ==
    ASSUME TypeInv, BuildArchive
    PROVE  TypeInv'
<1>1. Stored /\ OneInHand /\ RowsNumbered
  BY TypeInvParts
<1>2. export \in Exports /\ log \in [Sessions -> Seq(Record)]
  BY <1>1 DEF Stored
<1>3. SUFFICES export' \in Exports
  <2>1. UNCHANGED <<status, rows, log, hand, resolved, stopped, calls, wrong>>
    BY DEF BuildArchive, Snapshot, WriteTables, HashLog, CountLines, ArchiveLog, OnlyExport
  <2>2. Stored' /\ OneInHand' /\ RowsNumbered'
    BY <1>1, <2>1 DEF Stored, OneInHand, RowsNumbered
  <2> QED BY <2>2, TypeInvParts, PTL
<1>4. CASE Snapshot
  <2>1. export.stage < 4
        /\ export' = After([export EXCEPT !.copy = [status |-> status, rows |-> rows],
                                          !.moved = {c.s : c \in hand}])
    BY <1>4 DEF Snapshot, At
  <2> DEFINE cp == [status |-> status, rows |-> rows]
             mv == {c.s : c \in hand}
             e == [export EXCEPT !.copy = cp]
             f == [e EXCEPT !.moved = mv]
  <2>2. cp \in Copy
    BY <1>1 DEF Copy, Stored
  <2>3. mv \in SUBSET Sessions
    BY <1>1 DEF OneInHand, Call
  <2>4. e \in Exports /\ e.stage = export.stage
    <3> HIDE DEF cp
    <3> QED BY <1>2, <2>2, CopyType
  <2>5. f \in Exports /\ f.stage = e.stage
    <3>1. f.stage = e.stage
      BY <2>4 DEF Exports
    <3> HIDE DEF mv, e
    <3> QED BY <2>3, <2>4, <3>1, MovedType
  <2>6. export' = After(f)
    BY <1>2, <2>1 DEF Exports
  <2> HIDE DEF e, f
  <2> QED BY <2>1, <2>4, <2>5, <2>6, AfterType
<1>5. CASE WriteTables
  <2>1. PICK bad \in SUBSET (InLong(export) \cup InIncomplete(export)) :
          export' = After([export EXCEPT !.unread = bad])
    BY <1>5 DEF WriteTables
  <2>2. bad \in SUBSET Sessions /\ export.stage < 4
    BY <1>5 DEF InLong, InIncomplete, WriteTables, At
  <2> DEFINE e == [export EXCEPT !.unread = bad]
  <2>3. e \in Exports /\ e.stage < 4
    BY <1>2, <2>2, UnreadType
  <2> HIDE DEF e
  <2> QED BY <2>1, <2>3, AfterType DEF e
<1>6. ASSUME NEW s \in Sessions, CountLines(s) PROVE export' \in Exports
  <2> DEFINE e == [export EXCEPT !.lines[s] = Len(log[s])]
  <2>1. export.stage < 4 /\ export' = IF s = NSessions THEN After(e) ELSE e
    BY <1>6 DEF CountLines, At
  <2>2. Len(log[s]) \in Nat
    BY <1>2
  <2>3. e \in Exports /\ e.stage < 4
    BY <1>2, <2>1, <2>2, LinesType
  <2> HIDE DEF e
  <2> QED BY <2>1, <2>3, AfterType
<1>7. ASSUME NEW s \in Sessions, ArchiveLog(s) PROVE export' \in Exports
  <2> DEFINE e == [export EXCEPT !.logs[s] = log[s]]
  <2>1. export' = [e EXCEPT !.hashing = s]
    BY <1>2, <1>7 DEF ArchiveLog, Exports
  <2>2. e \in Exports
    BY <1>2, LogsType
  <2> HIDE DEF e
  <2> QED BY <2>1, <2>2, HashingType
<1>8. CASE HashLog
  <2> DEFINE s == export.hashing
             e == [export EXCEPT !.sums[s] = log[s]]
             f == [e EXCEPT !.hashing = 0]
             g == [f EXCEPT !.done = export.done \cup {s}]
             h == [export EXCEPT !.sums[s] = log[s], !.hashing = 0, !.done = @ \cup {s}]
  <2>1. export.stage < 4 /\ s \in Sessions /\ export.done \cup {s} \in SUBSET Sessions
    BY <1>2, <1>8 DEF HashLog, At, Exports
  <2>2. export' = IF s = NSessions THEN After(h) ELSE h
    BY <1>8 DEF HashLog
  <2>3. h = g
    BY <1>2 DEF Exports
  <2> HIDE DEF s, h
  <2>4. e \in Exports /\ e.stage < 4
    BY <1>2, <2>1, SumsType
  <2> HIDE DEF e
  <2>5. f \in Exports /\ f.stage < 4
    BY <2>4, HashingType
  <2> HIDE DEF f
  <2>6. g \in Exports /\ g.stage < 4
    BY <2>1, <2>5, DoneType
  <2> HIDE DEF g
  <2> QED BY <2>2, <2>3, <2>6, AfterType
<1> QED
  BY <1>4, <1>5, <1>6, <1>7, <1>8 DEF BuildArchive

LEMMA TypeInvNext ==
    ASSUME TypeInv, [Next]_avars
    PROVE  TypeInv'
<1>1. CASE UNCHANGED avars
  <2>1. Stored /\ OneInHand /\ RowsNumbered
    BY TypeInvParts
  <2>2. Stored' /\ OneInHand' /\ RowsNumbered'
    BY <1>1, <2>1 DEF avars, Stored, OneInHand, RowsNumbered
  <2> QED BY <2>2, TypeInvParts, PTL
<1> QED
  BY <1>1, WritesKeepTypes, ArchiveKeepsTypes DEF Next

THEOREM TypeInvariant == Spec => []TypeInv
<1>1. Init => TypeInv
  BY TypeInvInit
<1>2. TypeInv /\ [Next]_avars => TypeInv'
  BY TypeInvNext
<1> QED BY <1>1, <1>2, PTL DEF Spec

-----------------------------------------------------------------------------
(* The log *)

\* The second of two lines is of a later call, and its number is no smaller.
Later(r, q) ==
    /\ r.call < q.call
    /\ NoSeq \notin {r.seq, q.seq} => r.seq <= q.seq

Ordered(l) == \A i, j \in DOMAIN l : i < j => Later(l[i], l[j])

\* The calls whose line is still to be written
Waiting(s) == {c \in hand : c.s = s /\ c.at = "line"}

\* No line is of a call still to come, or has a number past the next.
LinesAreOfCalls ==
    \A s \in Sessions : \A i \in DOMAIN log[s] :
      log[s][i].call <= calls[s] /\ log[s][i].seq <= Len(rows[s]) + 1

\* The line in hand is the last call's, and comes after every line there is.
WaitingIsLast ==
    \A c \in hand :
      c.at = "line" =>
        /\ c.line.call = calls[c.s] /\ calls[c.s] > 0 /\ c.line.seq <= Len(rows[c.s]) + 1
        /\ \A i \in DOMAIN log[c.s] : Later(log[c.s][i], c.line)

\* While no line has been lost, there is one of every call but that in hand.
NoLineMissing ==
    \A s \in Sessions :
      "line" \notin wrong[s] =>
        CallsOf(log[s]) = FirstCalls(IF Waiting(s) = {} THEN calls[s] ELSE calls[s] - 1)

LogInv ==
    /\ LinesAreOfCalls
    /\ WaitingIsLast
    /\ \A s \in Sessions : Ordered(log[s])
    /\ NoLineMissing

LEMMA LogInvInit == Init => LogInv
<1> SUFFICES ASSUME Init PROVE LogInv
  OBVIOUS
<1>1. /\ log = [s \in Sessions |-> <<>>] /\ hand = {}
      /\ calls = [s \in Sessions |-> 0] /\ rows = [s \in Sessions |-> <<>>]
  BY DEF Init, Nothing
<1>2. LinesAreOfCalls /\ WaitingIsLast /\ \A s \in Sessions : Ordered(log[s])
  BY <1>1 DEF LinesAreOfCalls, WaitingIsLast, Ordered
<1>3. ASSUME NEW s \in Sessions
      PROVE  CallsOf(log[s]) = FirstCalls(IF Waiting(s) = {} THEN calls[s] ELSE calls[s] - 1)
  <2>1. Waiting(s) = {}
    BY <1>1 DEF Waiting
  <2>2. CallsOf(log[s]) = [i \in 1..0 |-> log[s][i].call] /\ FirstCalls(0) = [i \in 1..0 |-> i]
    BY <1>1 DEF CallsOf, FirstCalls
  <2>3. CallsOf(log[s]) = FirstCalls(0)
    BY <2>2
  <2> QED BY <1>1, <2>1, <2>3
<1> QED
  BY <1>2, <1>3 DEF LogInv, NoLineMissing

\* Steps that neither make a call, nor write a line, nor let one go.
LEMMA QuietKeepsLog ==
    ASSUME LogInv, log' = log, calls' = calls, rows' = rows,
           {c \in hand' : c.at = "line"} = {c \in hand : c.at = "line"},
           \A s \in Sessions : wrong[s] \subseteq wrong'[s]
    PROVE  LogInv'
<1>1. LinesAreOfCalls' /\ \A s \in Sessions : Ordered(log'[s])
  BY DEF LogInv, LinesAreOfCalls
<1>2. \A c \in hand' : c.at = "line" => c \in hand
  OBVIOUS
<1>3. WaitingIsLast'
  BY <1>2 DEF LogInv, WaitingIsLast
<1>4. \A s \in Sessions : Waiting(s)' = Waiting(s)
  BY DEF Waiting
<1>5. NoLineMissing'
  BY <1>4 DEF LogInv, NoLineMissing
<1> QED
  BY <1>1, <1>3, <1>5 DEF LogInv

LEMMA CrashKeepsLog ==
    ASSUME TypeInv, LogInv, NEW c \in hand, Crash(c)
    PROVE  LogInv'
<1>1. OneInHand /\ wrong \in [Sessions -> SUBSET Wrongs]
  BY TypeInvParts DEF Stored
<1>2. hand = {c} /\ c \in Call /\ c.s \in Sessions
  BY <1>1 DEF OneInHand, Call
<1>3. log' = log /\ calls' = calls /\ rows' = rows /\ hand' = {}
  BY DEF Crash
<1>4. PICK what \in SUBSET {"line", "end"} :
        (c.at = "line" => "line" \in what) /\ GoesWrong(c.s, what)
  BY DEF Crash
<1>5. \A s \in Sessions : wrong[s] \subseteq wrong'[s]
  BY <1>1, <1>4 DEF GoesWrong
<1>6. c.at = "line" => "line" \in wrong'[c.s]
  BY <1>1, <1>2, <1>4 DEF GoesWrong
<1>7. LinesAreOfCalls' /\ WaitingIsLast' /\ \A s \in Sessions : Ordered(log'[s])
  BY <1>3 DEF LogInv, LinesAreOfCalls, WaitingIsLast
<1>8. ASSUME NEW s \in Sessions, "line" \notin wrong'[s]
      PROVE  Waiting(s) = {} /\ Waiting(s)' = {} /\ "line" \notin wrong[s]
  BY <1>2, <1>3, <1>5, <1>6, <1>8 DEF Waiting
<1>9. NoLineMissing'
  BY <1>3, <1>8 DEF LogInv, NoLineMissing
<1> QED
  BY <1>3, <1>7, <1>9 DEF LogInv

\* A line after a log it comes after
LEMMA OneMoreLine ==
    ASSUME NEW l \in Seq(Record), NEW r \in Record, Ordered(l),
           \A i \in DOMAIN l : Later(l[i], r)
    PROVE  /\ Append(l, r) \in Seq(Record) /\ Ordered(Append(l, r))
           /\ \A i \in DOMAIN Append(l, r) : Append(l, r)[i] = r \/ \E j \in DOMAIN l : Append(l, r)[i] = l[j]
<1> DEFINE n == Len(l)
           m == Append(l, r)
<1>1. n \in Nat /\ DOMAIN l = 1..n /\ m \in Seq(Record) /\ DOMAIN m = 1..(n + 1)
      /\ m[n + 1] = r /\ \A i \in 1..n : m[i] = l[i]
  OBVIOUS
<1> HIDE DEF n, m
<1>2. \A i \in DOMAIN m : i = n + 1 \/ i \in DOMAIN l
  BY <1>1
<1>3. ASSUME NEW i \in DOMAIN m, NEW j \in DOMAIN m, i < j PROVE Later(m[i], m[j])
  <2>1. i \in DOMAIN l /\ m[i] = l[i]
    BY <1>1, <1>3
  <2>2. CASE j = n + 1
    BY <1>1, <2>1, <2>2
  <2>3. CASE j \in DOMAIN l
    BY <1>1, <1>3, <2>1, <2>3 DEF Ordered
  <2> QED BY <1>2, <2>2, <2>3
<1>4. Ordered(m)
  BY <1>3 DEF Ordered
<1> QED
  BY <1>1, <1>2, <1>4 DEF m

LEMMA CallsOfLength ==
    ASSUME NEW l \in Seq(Record), NEW n \in Nat, CallsOf(l) = FirstCalls(n)
    PROVE  Len(l) = n /\ DOMAIN l = 1..n
<1>1. DOMAIN CallsOf(l) = DOMAIN l /\ DOMAIN FirstCalls(n) = 1..n
  BY DEF CallsOf, FirstCalls
<1>2. DOMAIN l = 1..n
  BY <1>1, Zenon
<1> DEFINE k == Len(l)
<1>3. k \in Nat /\ 1..k = 1..n
  BY <1>2
<1> HIDE DEF k
<1>4. ~ (k < n)
  <2>1. n \in 1..n => n \in 1..k
    BY <1>3
  <2> QED BY <1>3, <2>1
<1>5. ~ (n < k)
  <2>1. k \in 1..k => k \in 1..n
    BY <1>3
  <2> QED BY <1>3, <2>1
<1>6. k = n
  BY <1>3, <1>4, <1>5
<1> QED
  BY <1>2, <1>6 DEF k

LEMMA CallsOfOneMore ==
    ASSUME NEW l \in Seq(Record), NEW r \in Record, NEW n \in Nat,
           CallsOf(l) = FirstCalls(n), r.call = n + 1
    PROVE  CallsOf(Append(l, r)) = FirstCalls(n + 1)
<1>2. DOMAIN l = 1..n
  BY CallsOfLength
<1>3. Len(l) = n
  BY CallsOfLength
<1>4. \A i \in 1..n : l[i].call = i
  <2>1. \A i \in 1..n : CallsOf(l)[i] = l[i].call /\ FirstCalls(n)[i] = i
    BY <1>2 DEF CallsOf, FirstCalls
  <2> QED BY <2>1
<1> DEFINE m == Append(l, r)
<1>5. DOMAIN m = 1..(n + 1) /\ m[n + 1] = r /\ \A i \in 1..n : m[i] = l[i]
  BY <1>2, <1>3
<1> HIDE DEF m
<1>6. \A i \in 1..(n + 1) : m[i].call = i
  <2>1. \A i \in 1..(n + 1) : i \in 1..n \/ i = n + 1
    OBVIOUS
  <2> QED BY <1>4, <1>5, <2>1
<1>7. CallsOf(m) = [i \in 1..(n + 1) |-> m[i].call]
  BY <1>5 DEF CallsOf
<1>8. [i \in 1..(n + 1) |-> m[i].call] = [i \in 1..(n + 1) |-> i]
  BY <1>6
<1> QED
  BY <1>7, <1>8 DEF FirstCalls, m

LEMMA AppendKeepsLog ==
    ASSUME TypeInv, LogInv, NEW c \in hand, AppendLine(c)
    PROVE  LogInv'
<1>1. Stored /\ OneInHand
  BY TypeInvParts
<1>2. /\ log \in [Sessions -> Seq(Record)] /\ wrong \in [Sessions -> SUBSET Wrongs]
  BY <1>1 DEF Stored
<1>3. hand = {c} /\ c \in Call /\ c.s \in Sessions /\ c.line \in Record /\ c.at = "line"
  BY <1>1 DEF OneInHand, Call, AppendLine
<1> DEFINE s == c.s
           r == c.line
<1>4. /\ r.call = calls[s] /\ calls[s] > 0 /\ r.seq <= Len(rows[s]) + 1
      /\ \A i \in DOMAIN log[s] : Later(log[s][i], r)
  BY <1>3 DEF LogInv, WaitingIsLast
<1>5. /\ \/ log' = [log EXCEPT ![s] = Append(log[s], r)] /\ wrong' = wrong
         \/ log' = log /\ GoesWrong(s, {"line"})
      /\ calls' = calls /\ rows' = rows
  BY DEF AppendLine
<1>6. \A d \in hand' : d.at # "line"
  <2>1. hand' \subseteq {[c EXCEPT !.at = "status"]}
    BY <1>3 DEF AppendLine
  <2>2. [c EXCEPT !.at = "status"].at = "status"
    BY <1>3 DEF Call
  <2> QED BY <2>1, <2>2
<1>7. WaitingIsLast' /\ \A t \in Sessions : Waiting(t)' = {}
  BY <1>6 DEF WaitingIsLast, Waiting
<1>8. Waiting(s) = {c} /\ \A t \in Sessions \ {s} : Waiting(t) = {}
  BY <1>3 DEF Waiting
<1>14. s \in Sessions /\ r \in Record
  BY <1>3
<1> HIDE DEF s, r
<1>9. CASE log' = log /\ GoesWrong(s, {"line"})
  <2>1. "line" \in wrong'[s] /\ \A t \in Sessions : wrong[t] \subseteq wrong'[t]
    BY <1>2, <1>9, <1>14 DEF GoesWrong
  <2>2. LinesAreOfCalls' /\ \A t \in Sessions : Ordered(log'[t])
    BY <1>5, <1>9 DEF LogInv, LinesAreOfCalls
  <2>3. NoLineMissing'
    BY <1>5, <1>7, <1>8, <1>9, <2>1 DEF LogInv, NoLineMissing
  <2> QED BY <1>7, <1>9, <2>2, <2>3 DEF LogInv
<1>10. CASE log' = [log EXCEPT ![s] = Append(log[s], r)] /\ wrong' = wrong
  <2> DEFINE l == Append(log[s], r)
  <2>1. log[s] \in Seq(Record) /\ Ordered(log[s])
    BY <1>2, <1>14 DEF LogInv
  <2>2. /\ Ordered(l)
        /\ \A i \in DOMAIN l : l[i] = r \/ \E j \in DOMAIN log[s] : l[i] = log[s][j]
    BY <1>4, <1>14, <2>1, OneMoreLine DEF s, r
  <2>3. "line" \notin wrong[s] => CallsOf(l) = FirstCalls(calls[s])
    <3>1. SUFFICES ASSUME "line" \notin wrong[s] PROVE CallsOf(l) = FirstCalls(calls[s])
      OBVIOUS
    <3>2. CallsOf(log[s]) = FirstCalls(calls[s] - 1)
      BY <1>8, <1>14, <3>1 DEF LogInv, NoLineMissing
    <3>3. calls[s] \in Nat
      BY <1>1, <1>14, CallsAreCounted
    <3>5. calls[s] - 1 \in Nat /\ r.call = (calls[s] - 1) + 1
      BY <1>4, <3>3
    <3>6. CallsOf(l) = FirstCalls((calls[s] - 1) + 1)
      BY <1>14, <2>1, <3>2, <3>5, CallsOfOneMore
    <3> QED BY <3>3, <3>6
  <2> HIDE DEF l
  <2>4. log' = [log EXCEPT ![s] = l]
    BY <1>10 DEF l
  <2>5. log'[s] = l /\ \A t \in Sessions \ {s} : log'[t] = log[t]
    BY <1>2, <1>14, <2>4
  <2>6. \A t \in Sessions : Ordered(log'[t])
    BY <2>2, <2>5 DEF LogInv
  <2>7. LinesAreOfCalls'
    <3>1. calls[s] \in Nat
      BY <1>1, <1>14, CallsAreCounted
    <3>2. r.call <= calls[s] /\ r.seq <= Len(rows[s]) + 1
      BY <1>4, <3>1 DEF s, r
    <3>3. \A t \in Sessions : \A i \in DOMAIN log[t] :
            log[t][i].call <= calls[t] /\ log[t][i].seq <= Len(rows[t]) + 1
      BY DEF LogInv, LinesAreOfCalls
    <3>4. \A i \in DOMAIN l : l[i].call <= calls[s] /\ l[i].seq <= Len(rows[s]) + 1
      BY <1>14, <2>2, <3>2, <3>3
    <3>5. ASSUME NEW t \in Sessions, NEW i \in DOMAIN log'[t]
          PROVE  log'[t][i].call <= calls'[t] /\ log'[t][i].seq <= Len(rows'[t]) + 1
      BY <1>5, <2>5, <3>3, <3>4
    <3> QED BY <3>5 DEF LinesAreOfCalls
  <2>8. NoLineMissing'
    <3>1. ASSUME NEW t \in Sessions, "line" \notin wrong'[t]
          PROVE  CallsOf(log'[t]) = FirstCalls(calls'[t])
      <4>1. CASE t = s
        BY <1>5, <1>10, <2>3, <2>5, <3>1, <4>1
      <4>2. CASE t # s
        BY <1>5, <1>8, <1>10, <2>5, <3>1, <4>2 DEF LogInv, NoLineMissing
      <4> QED BY <4>1, <4>2
    <3> QED BY <1>7, <3>1 DEF NoLineMissing, CallsOf
  <2> QED BY <1>7, <2>6, <2>7, <2>8 DEF LogInv
<1> QED
  BY <1>5, <1>9, <1>10 DEF s, r

LEMMA InsertKeepsLog ==
    ASSUME TypeInv, LogInv, NEW s \in Sessions, NEW kind \in Kinds, NEW set \in Ended \cup {"none"},
           NEW late \in SUBSET {"late"}, Insert(s, kind, set, late), log' = log
    PROVE  LogInv'
<1> DEFINE n == Len(rows[s])
           k == calls[s]
<1>1. Stored
  BY TypeInvParts
<1>2. /\ rows \in [Sessions -> Seq(Record)] /\ log \in [Sessions -> Seq(Record)]
      /\ calls \in [Sessions -> 0..MaxCalls] /\ wrong \in [Sessions -> SUBSET Wrongs]
  BY <1>1 DEF Stored
<1>3. n \in Nat /\ hand = {} /\ calls' = [calls EXCEPT ![s] = k + 1]
  BY InsertDoes
<1>4. PICK seq \in {NoSeq, n + 1} :
        /\ hand' = {InCall(s, kind, seq, set)}
        /\ \/ /\ seq = n + 1
              /\ rows' = [rows EXCEPT ![s] = Append(rows[s], Line(s, kind, seq))]
              /\ GoesWrong(s, late)
           \/ rows' = rows /\ GoesWrong(s, {"row"})
  BY InsertDoes
<1>5. seq \in Nat /\ seq <= n + 1
  BY <1>3
<1> DEFINE r == Line(s, kind, seq)
           c == InCall(s, kind, seq, set)
<1>6. /\ r \in Record /\ r.seq = seq /\ r.call = k + 1
      /\ c.line = r /\ c.s = s /\ c.at = "line"
  BY <1>1, <1>5, InCallType
<1>7. k \in Nat
  BY <1>1, CallsAreCounted
<1>8. /\ calls'[s] = k + 1 /\ \A t \in Sessions \ {s} : calls'[t] = calls[t]
  BY <1>2, <1>3
<1>9. /\ Len(rows'[s]) \in {n, n + 1} /\ \A t \in Sessions \ {s} : rows'[t] = rows[t]
  <2>1. rows[s] \in Seq(Record)
    BY <1>2
  <2> HIDE DEF r
  <2>2. CASE rows' = [rows EXCEPT ![s] = Append(rows[s], r)]
    BY <1>2, <1>6, <2>1, <2>2
  <2>3. CASE rows' = rows
    BY <2>3
  <2> QED BY <1>4, <2>2, <2>3 DEF r
<1>10. /\ \A t \in Sessions : "line" \notin wrong'[t] => "line" \notin wrong[t]
  BY <1>2, <1>4 DEF GoesWrong
<1>11. hand' = {c}
  BY <1>4
<1>16. /\ k = calls[s] /\ n = Len(rows[s])
  OBVIOUS
<1> HIDE DEF r, c, n, k
<1>12. LinesAreOfCalls'
  <2>1. \A t \in Sessions : \A i \in DOMAIN log[t] :
          log[t][i].call <= calls[t] /\ log[t][i].seq <= Len(rows[t]) + 1
    BY DEF LogInv, LinesAreOfCalls
  <2>2. ASSUME NEW i \in DOMAIN log[s]
        PROVE  log[s][i].call <= calls'[s] /\ log[s][i].seq <= Len(rows'[s]) + 1
    <3>1. log[s][i] \in Record
      BY <1>2
    <3>2. log[s][i].call \in Nat /\ log[s][i].seq \in Nat
      BY <3>1 DEF Record
    <3>3. log[s][i].call <= k /\ log[s][i].seq <= n + 1
      BY <1>16, <2>1
    <3> QED BY <1>3, <1>7, <1>8, <1>9, <3>2, <3>3
  <2>3. ASSUME NEW t \in Sessions, NEW i \in DOMAIN log[t], t # s
        PROVE  log[t][i].call <= calls'[t] /\ log[t][i].seq <= Len(rows'[t]) + 1
    BY <1>8, <1>9, <2>1, <2>3
  <2> QED BY <2>2, <2>3 DEF LinesAreOfCalls
<1>13. WaitingIsLast'
  <2>1. ASSUME NEW i \in DOMAIN log[s] PROVE Later(log[s][i], r)
    <3>1. log[s][i] \in Record
      BY <1>2
    <3>2. log[s][i].call \in Nat /\ log[s][i].seq \in Nat
      BY <3>1 DEF Record
    <3>3. log[s][i].call <= k /\ log[s][i].seq <= n + 1
      BY <1>16 DEF LogInv, LinesAreOfCalls
    <3>4. log[s][i].call < r.call
      BY <1>6, <1>7, <3>2, <3>3
    <3>5. NoSeq # r.seq => r.seq = n + 1
      BY <1>4, <1>6
    <3> QED BY <3>3, <3>4, <3>5 DEF Later
  <2>2. c.line.call = calls'[c.s] /\ calls'[c.s] > 0 /\ c.line.seq <= Len(rows'[c.s]) + 1
    BY <1>3, <1>5, <1>6, <1>7, <1>8, <1>9
  <2> QED BY <1>6, <1>11, <2>1, <2>2 DEF WaitingIsLast, Later
<1>14. NoLineMissing'
  <2>1. \A t \in Sessions : Waiting(t) = {}
    BY <1>3 DEF Waiting
  <2>2. Waiting(s)' = {c} /\ \A t \in Sessions \ {s} : Waiting(t)' = {}
    BY <1>6, <1>11 DEF Waiting
  <2>3. \A t \in Sessions : "line" \notin wrong[t] => CallsOf(log[t]) = FirstCalls(calls[t])
    BY <2>1 DEF LogInv, NoLineMissing
  <2>4. calls'[s] - 1 = calls[s]
    BY <1>7, <1>8, <1>16
  <2>5. ASSUME NEW t \in Sessions, "line" \notin wrong'[t]
        PROVE  CallsOf(log[t]) = FirstCalls(IF Waiting(t)' = {} THEN calls'[t] ELSE calls'[t] - 1)
    BY <1>8, <1>10, <2>2, <2>3, <2>4, <2>5
  <2> QED BY <2>5 DEF NoLineMissing, CallsOf, FirstCalls
<1>15. \A t \in Sessions : Ordered(log'[t])
  BY DEF LogInv
<1> QED
  BY <1>12, <1>13, <1>14, <1>15 DEF LogInv

LEMMA LogInvNext ==
    ASSUME TypeInv, LogInv, [Next]_avars
    PROVE  LogInv'
<1>1. Stored /\ OneInHand
  BY TypeInvParts
<1>2. wrong \in [Sessions -> SUBSET Wrongs]
  BY <1>1 DEF Stored
<1>3. ASSUME NEW s \in Sessions, Resolve(s) \/ DropEvent(s) PROVE LogInv'
  BY <1>3, QuietKeepsLog DEF Resolve, DropEvent
<1>4. ASSUME NEW s \in Sessions, RecordEvent(s) PROVE LogInv'
  <2>1. PICK late \in SUBSET {"late"} : Insert(s, "event", "none", late)
    BY <1>4 DEF RecordEvent
  <2>2. log' = log /\ "event" \in Kinds
    BY <1>4 DEF RecordEvent, Kinds
  <2> QED BY <2>1, <2>2, InsertKeepsLog
<1>5. ASSUME NEW s \in Sessions, RecordRender(s) PROVE LogInv'
  <2>1. Insert(s, "render", "none", {}) /\ log' = log /\ "render" \in Kinds
    BY <1>5 DEF RecordRender, Kinds
  <2> QED BY <2>1, InsertKeepsLog
<1>6. ASSUME NEW s \in Sessions, NEW outcome \in Ended, EndSession(s, outcome) PROVE LogInv'
  <2>1. Insert(s, "session_end", outcome, {}) /\ log' = log /\ "session_end" \in Kinds
    BY <1>6 DEF EndSession, Kinds
  <2> QED BY <2>1, InsertKeepsLog
<1>7. ASSUME NEW s \in Sessions, NEW outcome \in Ended, EndUnlogged(s, outcome) PROVE LogInv'
  <2>1. log' = log /\ calls' = calls /\ rows' = rows /\ hand' = hand /\ GoesWrong(s, {"endless"})
    BY <1>7 DEF EndUnlogged
  <2>2. \A t \in Sessions : wrong[t] \subseteq wrong'[t]
    BY <1>2, <2>1 DEF GoesWrong
  <2> QED BY <2>1, <2>2, QuietKeepsLog
<1>8. ASSUME NEW c \in hand, SetStatus(c) PROVE LogInv'
  <2>1. /\ log' = log /\ calls' = calls /\ rows' = rows /\ hand' = hand \ {c} /\ c.at = "status"
        /\ wrong' = wrong \/ GoesWrong(c.s, {"end"})
    BY <1>8 DEF SetStatus
  <2>2. \A t \in Sessions : wrong[t] \subseteq wrong'[t]
    BY <1>2, <2>1 DEF GoesWrong
  <2>3. {d \in hand' : d.at = "line"} = {d \in hand : d.at = "line"}
    BY <2>1
  <2> QED BY <2>1, <2>2, <2>3, QuietKeepsLog
<1>9. ASSUME CloseStudy PROVE LogInv'
  BY <1>9, QuietKeepsLog DEF CloseStudy
<1>10. ASSUME BuildArchive PROVE LogInv'
  <2>1. UNCHANGED <<status, rows, log, hand, resolved, stopped, calls, wrong>>
    BY <1>10 DEF BuildArchive, Snapshot, WriteTables, HashLog, CountLines, ArchiveLog, OnlyExport
  <2> QED BY <2>1, QuietKeepsLog
<1>11. ASSUME UNCHANGED avars PROVE LogInv'
  BY <1>11, QuietKeepsLog DEF avars
<1> QED
  BY <1>3, <1>4, <1>5, <1>6, <1>7, <1>8, <1>9, <1>10, <1>11, AppendKeepsLog, CrashKeepsLog
  DEF Next, Writes

THEOREM LogInvariant == Spec => []LogInv
<1>1. Init => LogInv
  BY LogInvInit
<1>2. TypeInv /\ LogInv /\ [Next]_avars => LogInv'
  BY LogInvNext
<1> QED BY <1>1, <1>2, TypeInvariant, PTL DEF Spec

-----------------------------------------------------------------------------
(* What the runs check *)

\* The types; in them that one call at a time is under the write lock, from its
\* row to its line and the status an end sets.
THEOREM TypeCorrect == Spec => []TypeOK
<1>1. TypeInv => TypeOK
  BY DEF TypeInv
<1> QED BY <1>1, TypeInvariant, PTL

\* The file a session is recovered from has its calls in the order they were
\* made, with numbers that never go back; and every call, unless an append has
\* failed or the process was killed before one.
THEOREM TheLogIsInOrder == Spec => []LogIsInOrder
<1>1. TypeInv /\ LogInv => LogIsInOrder
  <2> SUFFICES ASSUME TypeInv, LogInv, NEW s \in Sessions
               PROVE  /\ "line" \notin wrong[s] =>
                           \/ CallsOf(log[s]) = FirstCalls(calls[s])
                           \/ \E c \in hand : c.s = s /\ CallsOf(log[s]) = FirstCalls(calls[s] - 1)
                      /\ \A i, j \in DOMAIN log[s] :
                           i < j => /\ log[s][i].call < log[s][j].call
                                    /\ NoSeq \notin {log[s][i].seq, log[s][j].seq} =>
                                         log[s][i].seq <= log[s][j].seq
    BY DEF LogIsInOrder
  <2>1. ASSUME "line" \notin wrong[s]
        PROVE  \/ CallsOf(log[s]) = FirstCalls(calls[s])
               \/ \E c \in hand : c.s = s /\ CallsOf(log[s]) = FirstCalls(calls[s] - 1)
    <3>1. CallsOf(log[s]) = FirstCalls(IF Waiting(s) = {} THEN calls[s] ELSE calls[s] - 1)
      BY <2>1 DEF LogInv, NoLineMissing
    <3>2. CASE Waiting(s) = {}
      BY <3>1, <3>2
    <3>3. CASE Waiting(s) # {}
      <4>1. \E c \in hand : c.s = s
        BY <3>3 DEF Waiting
      <4> QED BY <3>1, <3>3, <4>1
    <3> QED BY <3>2, <3>3
  <2>2. Ordered(log[s])
    BY DEF LogInv
  <2> QED BY <2>1, <2>2 DEF Ordered, Later
<1> QED BY <1>1, TypeInvariant, LogInvariant, PTL

-----------------------------------------------------------------------------
(* The archive: the tables' rows *)

Positions(copied) == \A i \in DOMAIN copied : copied[i].seq = i

\* A permutation that keeps the order moves nothing.
LEMMA KeepsOrder ==
    ASSUME NEW n \in Nat, NEW p \in [1..n -> 1..n], \A w \in 1..n : \E v \in 1..n : p[v] = w,
           \A i, j \in 1..n : i < j => p[i] <= p[j], NEW k \in 1..n
    PROVE  p[k] = k
<1>1. IsFiniteSet(1..n)
  BY FS_Interval
<1>2. p \in Surjection(1..n, 1..n)
  BY DEF Surjection
<1>3. p \in Injection(1..n, 1..n)
  BY <1>1, <1>2, FS_Surjection
<1>4. \A i, j \in 1..n : i < j => p[i] < p[j]
  <2>1. \A i, j \in 1..n : p[i] = p[j] => i = j
    BY <1>3 DEF Injection, IsInjective
  <2>2. \A i \in 1..n : p[i] \in Int
    OBVIOUS
  <2>3. ASSUME NEW i \in 1..n, NEW j \in 1..n, i < j PROVE p[i] < p[j]
    <3>1. p[i] <= p[j] /\ p[i] # p[j]
      BY <2>1, <2>3
    <3> QED BY <2>2, <3>1
  <2> QED BY <2>3
<1>5. p[k] \in 1..n
  OBVIOUS
<1> DEFINE m == p[k]
           f == [i \in 1..(k - 1) |-> p[i]]
<1> HIDE DEF m
<1>6. m \in 1..n
  BY <1>5 DEF m
<1>7. \A i \in 1..(k - 1) : i \in 1..n /\ i < k
  OBVIOUS
<1>8. f \in [1..(k - 1) -> 1..(m - 1)]
  <2>1. ASSUME NEW i \in 1..(k - 1) PROVE p[i] \in 1..(m - 1)
    <3>1. i \in 1..n /\ i < k
      BY <1>7
    <3>2. p[i] \in 1..n /\ p[i] < m
      BY <1>4, <3>1 DEF m
    <3> QED BY <1>6, <3>2
  <2> QED BY <2>1
<1>9. \A i, j \in 1..(k - 1) : f[i] = f[j] => i = j
  BY <1>3, <1>7 DEF Injection, IsInjective
<1>10. \A w \in 1..(m - 1) : \E v \in 1..(k - 1) : f[v] = w
  <2>1. SUFFICES ASSUME NEW w \in 1..(m - 1) PROVE \E v \in 1..(k - 1) : f[v] = w
    OBVIOUS
  <2>2. w \in 1..n /\ w < m
    BY <1>6
  <2>3. PICK v \in 1..n : p[v] = w
    BY <2>2
  <2>4. ~ (v >= k)
    <3>1. SUFFICES ASSUME v >= k PROVE FALSE
      OBVIOUS
    <3>2. CASE v = k
      BY <2>2, <2>3, <3>2 DEF m
    <3>3. CASE v > k
      <4>1. m < w
        BY <1>4, <2>3, <3>3 DEF m
      <4> QED BY <1>6, <2>2, <4>1
    <3> QED BY <3>1, <3>2, <3>3
  <2>5. v \in 1..(k - 1)
    BY <2>3, <2>4
  <2> QED BY <2>3, <2>5
<1> HIDE DEF f
<1>11. f \in Bijection(1..(k - 1), 1..(m - 1))
  BY <1>8, <1>9, <1>10 DEF Bijection, Injection, Surjection, IsInjective
<1>12. Cardinality(1..(m - 1)) = Cardinality(1..(k - 1))
  <2>1. IsFiniteSet(1..(k - 1))
    BY FS_Interval
  <2>2. ExistsBijection(1..(k - 1), 1..(m - 1))
    BY <1>11 DEF ExistsBijection
  <2> QED BY <2>1, <2>2, FS_Bijection
<1>13. Cardinality(1..(m - 1)) = m - 1 /\ Cardinality(1..(k - 1)) = k - 1
  <2>1. m - 1 \in Nat /\ k - 1 \in Nat
    BY <1>6
  <2>2. \A a \in Nat : Cardinality(1..a) = a
    <3>1. SUFFICES ASSUME NEW a \in Nat PROVE Cardinality(1..a) = a
      OBVIOUS
    <3>2. Cardinality(1..a) = IF 1 > a THEN 0 ELSE a - 1 + 1
      BY FS_Interval
    <3> QED BY <3>2
  <2> QED BY <2>1, <2>2
<1>14. m = k
  BY <1>6, <1>12, <1>13
<1> QED
  BY <1>14 DEF m

\* The export's order is the order of the rows.
LEMMA LongRowsAreTheRows ==
    ASSUME NEW copied \in Seq(Record), Positions(copied)
    PROVE  LongRows(copied) = copied
<1> DEFINE n == Len(copied)
           Good(p) == \A i, j \in 1..n : i < j => ~Before(copied[p[j]], copied[p[i]])
           q == CHOOSE p \in Bijection(1..n, 1..n) : Good(p)
<1>1. n \in Nat /\ DOMAIN copied = 1..n
  OBVIOUS
<1>2. \A i \in 1..n : copied[i].seq = i
  BY <1>1 DEF Positions
<1>3. LongRows(copied) = [i \in 1..n |-> copied[q[i]]]
  BY DEF LongRows
<1>4. \E p \in Bijection(1..n, 1..n) : Good(p)
  <2> DEFINE id == [i \in 1..n |-> i]
  <2>1. id \in Bijection(1..n, 1..n)
    BY DEF Bijection, Injection, Surjection, IsInjective
  <2>2. ASSUME NEW i \in 1..n, NEW j \in 1..n, i < j
        PROVE  ~Before(copied[id[j]], copied[id[i]])
    <3>1. copied[id[j]].seq = j /\ copied[id[i]].seq = i
      BY <1>2
    <3> QED BY <1>1, <2>2, <3>1 DEF Before
  <2>3. Good(id)
    BY <2>2
  <2> HIDE DEF id, Good
  <2> QED BY <2>1, <2>3
<1>5. q \in Bijection(1..n, 1..n) /\ Good(q)
  <2> HIDE DEF Good
  <2> QED BY <1>4
<1> HIDE DEF q
<1>6. q \in [1..n -> 1..n] /\ \A w \in 1..n : \E v \in 1..n : q[v] = w
  BY <1>5 DEF Bijection, Injection, Surjection
<1>7. \A i, j \in 1..n : i < j => q[i] <= q[j]
  <2>1. SUFFICES ASSUME NEW i \in 1..n, NEW j \in 1..n, i < j PROVE q[i] <= q[j]
    OBVIOUS
  <2>2. q[i] \in 1..n /\ q[j] \in 1..n
    BY <1>6
  <2>3. copied[q[j]].seq = q[j] /\ copied[q[i]].seq = q[i]
    BY <1>2, <2>2
  <2>4. ~Before(copied[q[j]], copied[q[i]])
    BY <1>5, <2>1
  <2>5. ~(q[j] < q[i])
    BY <2>3, <2>4 DEF Before
  <2> QED BY <2>2, <2>5
<1> HIDE DEF n, Good
<1>8. \A k \in 1..n : q[k] = k
  BY <1>1, <1>6, <1>7, KeepsOrder
<1>9. [i \in 1..n |-> copied[q[i]]] = [i \in 1..n |-> copied[i]]
  BY <1>8
<1>10. copied = [i \in 1..n |-> copied[i]]
  BY <1>1
<1> QED
  BY <1>3, <1>9, <1>10

-----------------------------------------------------------------------------
(* The archive: what has been written when a session has ended *)

\* Every call has its row while no insert has failed.
RowOfEachCall ==
    \A s \in Sessions : "row" \notin wrong[s] => CallsOf(rows[s]) = FirstCalls(calls[s])

\* What is in hand is the last row, and an end's session is active until it is
\* done.
EndInHand ==
    \A c \in hand :
      /\ c.set # "none" => status[c.s] = "active"
      /\ c.at = "line" =>
           /\ c.line.kind = "session_end" => c.set # "none"
           /\ "row" \notin wrong[c.s] => rows[c.s][calls[c.s]].kind = c.line.kind

EndInv == RowOfEachCall /\ EndInHand

\* Nothing has happened to a session that costs it a row, a line or its end.
Clean(s) == wrong[s] \subseteq {"late", "endless"}

\* A log has every line up to the end that the copied rows have.
Covers(l, copied) ==
    \A i \in DOMAIN copied : copied[i].kind = "session_end" => i <= Len(l)

\* What the snapshot says of a session that had ended is in its log already.
CopyInv ==
    export.stage > 0 =>
      \A s \in Sessions :
        LET copied == export.copy.rows[s]
        IN /\ Positions(copied)
           /\ (Clean(s) /\ export.copy.status[s] \in Ended) =>
                CallsOf(copied) = FirstCalls(Len(copied)) /\ Covers(log[s], copied)

Archived(s) ==
    \/ export.stage = 4
    \/ export.stage = 3 /\ (s \in export.done \/ s = export.hashing)

\* So it is in the log that is archived after it, and what was archived is what
\* is hashed unless the session moved.
LogsInv ==
    /\ export.stage # 3 => export.hashing = 0
    /\ export.stage = 3 => \A t \in Sessions : t < export.hashing => t \in export.done
    /\ \A s \in Sessions :
         Archived(s) =>
           /\ (Clean(s) /\ export.copy.status[s] \in Ended) =>
                /\ CallsOf(export.logs[s]) = FirstCalls(Len(export.logs[s]))
                /\ Covers(export.logs[s], export.copy.rows[s])
           /\ s \notin export.moved =>
                IF s = export.hashing THEN export.logs[s] = log[s]
                ELSE export.sums[s] = export.logs[s]

ExportInv == CopyInv /\ LogsInv

LEMMA EndInvInit == Init => EndInv
<1> SUFFICES ASSUME Init PROVE EndInv
  OBVIOUS
<1>1. rows = [s \in Sessions |-> <<>>] /\ hand = {} /\ calls = [s \in Sessions |-> 0]
  BY DEF Init, Nothing
<1>2. ASSUME NEW s \in Sessions PROVE CallsOf(rows[s]) = FirstCalls(calls[s])
  <2>1. CallsOf(rows[s]) = [i \in 1..0 |-> rows[s][i].call] /\ FirstCalls(0) = [i \in 1..0 |-> i]
    BY <1>1 DEF CallsOf, FirstCalls
  <2>2. CallsOf(rows[s]) = FirstCalls(0)
    BY <2>1
  <2> QED BY <1>1, <2>2
<1> QED
  BY <1>1, <1>2 DEF EndInv, RowOfEachCall, EndInHand

\* Steps that store no row, and leave an end in hand to its session.
LEMMA QuietKeepsEnd ==
    ASSUME EndInv, rows' = rows, calls' = calls,
           \A s \in Sessions : wrong[s] \subseteq wrong'[s],
           hand \subseteq Call,
           \A c \in hand' :
             \E d \in hand : /\ c.s = d.s /\ c.set = d.set /\ (c.at = "line" => c = d)
                             /\ status'[c.s] = status[c.s]
    PROVE  EndInv'
<1>1. RowOfEachCall'
  BY DEF EndInv, RowOfEachCall, CallsOf, FirstCalls
<1>2. ASSUME NEW c \in hand'
      PROVE  /\ c.set # "none" => status'[c.s] = "active"
             /\ c.at = "line" =>
                  /\ c.line.kind = "session_end" => c.set # "none"
                  /\ "row" \notin wrong'[c.s] => rows'[c.s][calls'[c.s]].kind = c.line.kind
  <2>1. PICK d \in hand : /\ c.s = d.s /\ c.set = d.set /\ (c.at = "line" => c = d)
                          /\ status'[c.s] = status[c.s]
    OBVIOUS
  <2>2. d.s \in Sessions
    BY DEF Call
  <2> QED BY <2>1, <2>2 DEF EndInv, EndInHand
<1> QED
  BY <1>1, <1>2 DEF EndInv, EndInHand

LEMMA InsertKeepsEnd ==
    ASSUME TypeInv, EndInv, NEW s \in Sessions, NEW kind \in Kinds, NEW set \in Ended \cup {"none"},
           NEW late \in SUBSET {"late"}, Insert(s, kind, set, late), status' = status,
           set # "none" => status[s] = "active", kind = "session_end" => set # "none"
    PROVE  EndInv'
<1> DEFINE n == Len(rows[s])
           k == calls[s]
<1>1. Stored
  BY TypeInvParts
<1>2. /\ rows \in [Sessions -> Seq(Record)]
      /\ calls \in [Sessions -> 0..MaxCalls] /\ wrong \in [Sessions -> SUBSET Wrongs]
  BY <1>1 DEF Stored
<1>3. n \in Nat /\ hand = {} /\ calls' = [calls EXCEPT ![s] = k + 1]
  BY InsertDoes
<1>4. PICK seq \in {NoSeq, n + 1} :
        /\ hand' = {InCall(s, kind, seq, set)}
        /\ \/ /\ seq = n + 1
              /\ rows' = [rows EXCEPT ![s] = Append(rows[s], Line(s, kind, seq))]
              /\ GoesWrong(s, late)
           \/ rows' = rows /\ GoesWrong(s, {"row"})
  BY InsertDoes
<1>5. seq \in Nat
  BY <1>3
<1> DEFINE r == Line(s, kind, seq)
           c == InCall(s, kind, seq, set)
<1>6. /\ r \in Record /\ r.call = k + 1 /\ r.kind = kind
      /\ c.line = r /\ c.s = s /\ c.set = set
  BY <1>1, <1>5, InCallType DEF Line, InCall
<1>7. k \in Nat
  BY <1>1, CallsAreCounted
<1>8. calls'[s] = k + 1 /\ \A t \in Sessions \ {s} : calls'[t] = calls[t]
  BY <1>2, <1>3
<1>9. \A t \in Sessions : wrong[t] \subseteq wrong'[t]
  BY <1>2, <1>4 DEF GoesWrong
<1>10. hand' = {c} /\ rows[s] \in Seq(Record) /\ k = calls[s]
  BY <1>2, <1>4
<1> HIDE DEF r, c, n, k
<1>11. ASSUME "row" \notin wrong'[s]
       PROVE  CallsOf(rows'[s]) = FirstCalls(k + 1) /\ rows'[s][k + 1] = r
  <2>1. rows' = [rows EXCEPT ![s] = Append(rows[s], r)]
    BY <1>2, <1>4, <1>11 DEF GoesWrong, r
  <2>2. rows'[s] = Append(rows[s], r)
    BY <1>2, <2>1
  <2>3. CallsOf(rows[s]) = FirstCalls(k)
    BY <1>9, <1>10, <1>11 DEF EndInv, RowOfEachCall
  <2>4. CallsOf(rows'[s]) = FirstCalls(k + 1)
    BY <1>6, <1>7, <1>10, <2>2, <2>3, CallsOfOneMore
  <2>5. Len(rows[s]) = k
    BY <1>7, <1>10, <2>3, CallsOfLength
  <2> QED BY <1>6, <1>10, <2>2, <2>4, <2>5
<1>12. \A t \in Sessions \ {s} : rows'[t] = rows[t]
  BY <1>2, <1>4
<1>13. RowOfEachCall'
  <2>1. ASSUME NEW t \in Sessions, "row" \notin wrong'[t]
        PROVE  CallsOf(rows'[t]) = FirstCalls(calls'[t])
    <3>1. CASE t = s
      BY <1>8, <1>11, <2>1, <3>1
    <3>2. CASE t # s
      BY <1>8, <1>9, <1>12, <2>1, <3>2 DEF EndInv, RowOfEachCall
    <3> QED BY <3>1, <3>2
  <2> QED BY <2>1 DEF RowOfEachCall, CallsOf, FirstCalls
<1>14. EndInHand'
  BY <1>6, <1>8, <1>10, <1>11 DEF EndInHand
<1> QED
  BY <1>13, <1>14 DEF EndInv

LEMMA EndInvNext ==
    ASSUME TypeInv, EndInv, [Next]_avars
    PROVE  EndInv'
<1>1. Stored /\ OneInHand
  BY TypeInvParts
<1>2. wrong \in [Sessions -> SUBSET Wrongs] /\ hand \subseteq Call
  BY <1>1 DEF Stored, OneInHand
<1>3. ASSUME NEW s \in Sessions, Resolve(s) \/ DropEvent(s) PROVE EndInv'
  BY <1>2, <1>3, QuietKeepsEnd DEF Resolve, DropEvent
<1>4. ASSUME NEW s \in Sessions, RecordEvent(s) PROVE EndInv'
  <2>1. PICK late \in SUBSET {"late"} : Insert(s, "event", "none", late)
    BY <1>4 DEF RecordEvent
  <2>2. status' = status /\ "event" \in Kinds
    BY <1>4 DEF RecordEvent, Kinds
  <2> QED BY <2>1, <2>2, InsertKeepsEnd
<1>5. ASSUME NEW s \in Sessions, RecordRender(s) PROVE EndInv'
  <2>1. Insert(s, "render", "none", {}) /\ status' = status /\ "render" \in Kinds
    BY <1>5 DEF RecordRender, Kinds
  <2> QED BY <2>1, InsertKeepsEnd
<1>6. ASSUME NEW s \in Sessions, NEW outcome \in Ended, EndSession(s, outcome) PROVE EndInv'
  <2>1. /\ Insert(s, "session_end", outcome, {}) /\ status' = status /\ "session_end" \in Kinds
        /\ status[s] = "active"
    BY <1>6 DEF EndSession, Kinds
  <2>2. outcome # "none"
    OBVIOUS
  <2> QED BY <2>1, <2>2, InsertKeepsEnd
<1>7. ASSUME NEW s \in Sessions, NEW outcome \in Ended, EndUnlogged(s, outcome) PROVE EndInv'
  <2>1. calls' = calls /\ rows' = rows /\ hand' = hand /\ hand = {} /\ GoesWrong(s, {"endless"})
    BY <1>7 DEF EndUnlogged, Free
  <2>2. \A t \in Sessions : wrong[t] \subseteq wrong'[t]
    BY <1>2, <2>1 DEF GoesWrong
  <2> QED BY <1>2, <2>1, <2>2, QuietKeepsEnd
<1>8. ASSUME NEW c \in hand, SetStatus(c) PROVE EndInv'
  <2>1. /\ calls' = calls /\ rows' = rows /\ hand' = hand \ {c}
        /\ wrong' = wrong \/ GoesWrong(c.s, {"end"})
    BY <1>8 DEF SetStatus
  <2>2. \A t \in Sessions : wrong[t] \subseteq wrong'[t]
    BY <1>2, <2>1 DEF GoesWrong
  <2>3. hand' = {}
    BY <1>1, <2>1 DEF OneInHand
  <2> QED BY <1>2, <2>1, <2>2, <2>3, QuietKeepsEnd
<1>9. ASSUME NEW c \in hand, AppendLine(c) PROVE EndInv'
  <2>1. /\ calls' = calls /\ rows' = rows /\ status' = status
        /\ wrong' = wrong \/ GoesWrong(c.s, {"line"})
        /\ hand' = (hand \ {c}) \cup (IF c.set = "none" THEN {} ELSE {[c EXCEPT !.at = "status"]})
    BY <1>9 DEF AppendLine
  <2>2. \A t \in Sessions : wrong[t] \subseteq wrong'[t]
    BY <1>2, <2>1 DEF GoesWrong
  <2> DEFINE d == [c EXCEPT !.at = "status"]
  <2>3. d.at = "status" /\ d.s = c.s /\ d.set = c.set
    BY <1>2 DEF Call
  <2>4. hand' \subseteq {d}
    BY <1>1, <2>1 DEF OneInHand
  <2> HIDE DEF d
  <2> QED BY <1>2, <2>1, <2>2, <2>3, <2>4, QuietKeepsEnd
<1>10. ASSUME NEW c \in hand, Crash(c) PROVE EndInv'
  <2>1. calls' = calls /\ rows' = rows /\ hand' = {} /\ \E what : GoesWrong(c.s, what)
    BY <1>10 DEF Crash
  <2>2. \A t \in Sessions : wrong[t] \subseteq wrong'[t]
    BY <1>2, <2>1 DEF GoesWrong
  <2> QED BY <1>2, <2>1, <2>2, QuietKeepsEnd
<1>11. ASSUME CloseStudy PROVE EndInv'
  BY <1>2, <1>11, QuietKeepsEnd DEF CloseStudy
<1>12. ASSUME BuildArchive PROVE EndInv'
  <2>1. UNCHANGED <<status, rows, log, hand, resolved, stopped, calls, wrong>>
    BY <1>12 DEF BuildArchive, Snapshot, WriteTables, HashLog, CountLines, ArchiveLog, OnlyExport
  <2> QED BY <1>2, <2>1, QuietKeepsEnd
<1>13. ASSUME UNCHANGED avars PROVE EndInv'
  BY <1>2, <1>13, QuietKeepsEnd DEF avars
<1> QED
  BY <1>3, <1>4, <1>5, <1>6, <1>7, <1>8, <1>9, <1>10, <1>11, <1>12, <1>13 DEF Next, Writes

\* What the writes may do to an archive that is being made
WritesOn ==
    /\ \A s \in Sessions : wrong[s] \subseteq wrong'[s]
    /\ \A s \in Sessions : Len(log[s]) <= Len(log'[s])
    /\ export'.stage = export.stage /\ export'.copy = export.copy /\ export'.done = export.done
    /\ export'.hashing = export.hashing /\ export'.logs = export.logs /\ export'.sums = export.sums
    /\ export.moved \subseteq export'.moved
    /\ \A s \in Sessions : log'[s] # log[s] => export.stage = 0 \/ s \in export'.moved

LEMMA MovedDoes ==
    ASSUME export \in Exports, NEW s \in Sessions, Moved(s)
    PROVE  /\ export'.stage = export.stage /\ export'.copy = export.copy
           /\ export'.done = export.done /\ export'.hashing = export.hashing
           /\ export'.logs = export.logs /\ export'.sums = export.sums
           /\ export'.lines = export.lines /\ export.moved \subseteq export'.moved
           /\ export.stage = 0 \/ s \in export'.moved
BY DEF Moved, Exports

LEMMA WritesAreOn ==
    ASSUME TypeInv, Writes
    PROVE  WritesOn
<1>1. Stored /\ OneInHand
  BY TypeInvParts
<1>2. /\ wrong \in [Sessions -> SUBSET Wrongs] /\ export \in Exports
      /\ log \in [Sessions -> Seq(Record)]
  BY <1>1 DEF Stored
<1>3. \A s \in Sessions : Len(log[s]) \in Nat
  BY <1>2
<1>4. ASSUME log' = log, export' = export, \A s \in Sessions : wrong[s] \subseteq wrong'[s]
      PROVE  WritesOn
  BY <1>3, <1>4 DEF WritesOn
<1>5. ASSUME log' = log, NEW s \in Sessions, Moved(s), \A u \in Sessions : wrong[u] \subseteq wrong'[u]
      PROVE  WritesOn
  BY <1>2, <1>3, <1>5, MovedDoes DEF WritesOn
<1>6. ASSUME NEW s \in Sessions, NEW what, GoesWrong(s, what)
      PROVE  \A u \in Sessions : wrong[u] \subseteq wrong'[u]
  BY <1>2, <1>6 DEF GoesWrong
<1>7. ASSUME NEW s \in Sessions, NEW kind, NEW set, NEW late, Insert(s, kind, set, late), log' = log
      PROVE  WritesOn
  <2>1. Moved(s) /\ \E what : GoesWrong(s, what)
    BY <1>7 DEF Insert
  <2> QED BY <1>5, <1>6, <1>7, <2>1
<1>8. ASSUME NEW s \in Sessions, Resolve(s) \/ DropEvent(s) PROVE WritesOn
  BY <1>4, <1>8 DEF Resolve, DropEvent
<1>9. ASSUME NEW s \in Sessions, RecordEvent(s) \/ RecordRender(s) PROVE WritesOn
  BY <1>7, <1>9 DEF RecordEvent, RecordRender
<1>10. ASSUME NEW s \in Sessions, NEW outcome \in Ended, EndSession(s, outcome) PROVE WritesOn
  BY <1>7, <1>10 DEF EndSession
<1>11. ASSUME NEW s \in Sessions, NEW outcome \in Ended, EndUnlogged(s, outcome) PROVE WritesOn
  BY <1>5, <1>6, <1>11 DEF EndUnlogged
<1>12. ASSUME NEW c \in hand, AppendLine(c) PROVE WritesOn
  <2>1. c.s \in Sessions /\ c.line \in Record
    BY <1>1 DEF OneInHand, Call
  <2>2. Moved(c.s)
    BY <1>12 DEF AppendLine
  <2>3. CASE log' = [log EXCEPT ![c.s] = Append(@, c.line)] /\ wrong' = wrong
    <3>1. log[c.s] \in Seq(Record)
      BY <1>2, <2>1
    <3>2. Len(Append(log[c.s], c.line)) = Len(log[c.s]) + 1
      BY <2>1, <3>1
    <3>3. \A s \in Sessions : s # c.s => log'[s] = log[s]
      BY <1>2, <2>1, <2>3
    <3>4. \A s \in Sessions : Len(log[s]) <= Len(log'[s])
      BY <1>2, <1>3, <2>1, <2>3, <3>2, <3>3
    <3> QED BY <1>2, <2>1, <2>2, <2>3, <3>3, <3>4, MovedDoes DEF WritesOn
  <2>4. CASE log' = log /\ GoesWrong(c.s, {"line"})
    BY <1>5, <1>6, <2>1, <2>2, <2>4
  <2> QED BY <1>12, <2>3, <2>4 DEF AppendLine
<1>13. ASSUME NEW c \in hand, SetStatus(c) PROVE WritesOn
  <2>1. c.s \in Sessions
    BY <1>1 DEF OneInHand, Call
  <2>2. Moved(c.s) /\ log' = log /\ (wrong' = wrong \/ GoesWrong(c.s, {"end"}))
    BY <1>13 DEF SetStatus
  <2> QED BY <1>5, <1>6, <2>1, <2>2
<1>14. ASSUME NEW c \in hand, Crash(c) PROVE WritesOn
  <2>1. c.s \in Sessions
    BY <1>1 DEF OneInHand, Call
  <2>2. export' = export /\ log' = log /\ \E what : GoesWrong(c.s, what)
    BY <1>14 DEF Crash
  <2> QED BY <1>4, <1>6, <2>1, <2>2
<1>15. ASSUME CloseStudy PROVE WritesOn
  BY <1>4, <1>15 DEF CloseStudy
<1> QED
  BY <1>8, <1>9, <1>10, <1>11, <1>12, <1>13, <1>14, <1>15 DEF Writes

LEMMA WritesKeepExport ==
    ASSUME TypeInv, TypeInv', ExportInv, WritesOn
    PROVE  ExportInv'
<1>1. Stored
  BY TypeInvParts
<1>2. /\ wrong \in [Sessions -> SUBSET Wrongs] /\ export \in Exports
      /\ log \in [Sessions -> Seq(Record)]
  BY <1>1 DEF Stored
<1>3. \A s \in Sessions : Clean(s)' => Clean(s)
  BY DEF Clean, WritesOn
<1>4. CopyInv'
  <2>1. SUFFICES ASSUME export'.stage > 0, NEW s \in Sessions
                 PROVE  LET copied == export'.copy.rows[s]
                        IN /\ Positions(copied)
                           /\ (Clean(s)' /\ export'.copy.status[s] \in Ended) =>
                                CallsOf(copied) = FirstCalls(Len(copied)) /\ Covers(log'[s], copied)
    BY DEF CopyInv, Positions, CallsOf, FirstCalls, Covers
  <2> DEFINE copied == export.copy.rows[s]
  <2>2. export.stage > 0 /\ export'.copy = export.copy
    BY <2>1 DEF WritesOn
  <2>3. /\ Positions(copied)
        /\ (Clean(s) /\ export.copy.status[s] \in Ended) =>
             CallsOf(copied) = FirstCalls(Len(copied)) /\ Covers(log[s], copied)
    BY <2>2 DEF ExportInv, CopyInv
  <2>4. Covers(log[s], copied) => Covers(log'[s], copied)
    <3>1. Len(log[s]) \in Nat /\ Len(log[s]) <= Len(log'[s])
      BY <1>2 DEF WritesOn
    <3>2. export.copy.rows[s] \in Seq(Record)
      BY <1>2 DEF Exports, Copy
    <3>3. \A i \in DOMAIN copied : i \in Nat
      BY <3>2
    <3>4. Len(log'[s]) \in Int
      <4>1. log' \in [Sessions -> Seq(Record)]
        BY DEF TypeInv, TypeOK
      <4> QED BY <4>1
    <3> HIDE DEF copied
    <3> QED BY <3>1, <3>3, <3>4 DEF Covers
  <2> QED BY <1>3, <2>2, <2>3, <2>4
<1>5. LogsInv'
  <2>1. \A s \in Sessions : Archived(s)' <=> Archived(s)
    BY DEF WritesOn, Archived
  <2>2. /\ export'.stage # 3 => export'.hashing = 0
        /\ export'.stage = 3 => \A u \in Sessions : u < export'.hashing => u \in export'.done
    BY DEF WritesOn, ExportInv, LogsInv
  <2>3. ASSUME NEW s \in Sessions, Archived(s)
        PROVE  /\ (Clean(s)' /\ export'.copy.status[s] \in Ended) =>
                    /\ CallsOf(export'.logs[s]) = FirstCalls(Len(export'.logs[s]))
                    /\ Covers(export'.logs[s], export'.copy.rows[s])
               /\ s \notin export'.moved =>
                    IF s = export'.hashing THEN export'.logs[s] = log'[s]
                    ELSE export'.sums[s] = export'.logs[s]
    <3>1. /\ (Clean(s) /\ export.copy.status[s] \in Ended) =>
               /\ CallsOf(export.logs[s]) = FirstCalls(Len(export.logs[s]))
               /\ Covers(export.logs[s], export.copy.rows[s])
          /\ s \notin export.moved =>
               IF s = export.hashing THEN export.logs[s] = log[s]
               ELSE export.sums[s] = export.logs[s]
      BY <2>3 DEF ExportInv, LogsInv
    <3>2. export.stage # 0
      BY <2>3 DEF Archived
    <3> QED BY <1>3, <3>1, <3>2 DEF WritesOn
  <2> QED BY <2>1, <2>2, <2>3 DEF LogsInv, CallsOf, FirstCalls, Covers, Archived
<1> QED
  BY <1>4, <1>5 DEF ExportInv

\* The snapshot of a session that has ended has no row past the last line.
LEMMA SnapshotIsCovered ==
    ASSUME TypeInv, LogInv, EndInv, NEW s \in Sessions, Clean(s), status[s] \in Ended
    PROVE  CallsOf(rows[s]) = FirstCalls(Len(rows[s])) /\ Covers(log[s], rows[s])
<1>1. Stored /\ OneInHand
  BY TypeInvParts
<1>2. rows[s] \in Seq(Record) /\ log[s] \in Seq(Record) /\ calls[s] \in Nat
  BY <1>1, CallsAreCounted DEF Stored
<1>3. "row" \notin wrong[s] /\ "line" \notin wrong[s]
  BY DEF Clean
<1>4. CallsOf(rows[s]) = FirstCalls(calls[s])
  BY <1>3 DEF EndInv, RowOfEachCall
<1>5. Len(rows[s]) = calls[s] /\ DOMAIN rows[s] = 1..calls[s]
  BY <1>2, <1>4, CallsOfLength
<1>6. CASE Waiting(s) = {}
  <2>1. CallsOf(log[s]) = FirstCalls(calls[s])
    BY <1>3, <1>6 DEF LogInv, NoLineMissing
  <2>2. Len(log[s]) = calls[s]
    BY <1>2, <2>1, CallsOfLength
  <2> QED BY <1>2, <1>4, <1>5, <2>2 DEF Covers
<1>7. CASE Waiting(s) # {}
  <2>1. PICK c \in hand : c.s = s /\ c.at = "line"
    BY <1>7 DEF Waiting
  <2>2. calls[s] > 0
    BY <2>1 DEF LogInv, WaitingIsLast
  <2>3. CallsOf(log[s]) = FirstCalls(calls[s] - 1) /\ calls[s] - 1 \in Nat
    BY <1>2, <1>3, <1>7, <2>2 DEF LogInv, NoLineMissing
  <2>4. Len(log[s]) = calls[s] - 1
    BY <1>2, <2>3, CallsOfLength
  <2>5. c.set = "none" /\ c.line.kind # "session_end"
    BY <2>1 DEF EndInv, EndInHand
  <2>6. rows[s][calls[s]].kind # "session_end"
    BY <1>3, <2>1, <2>5 DEF EndInv, EndInHand
  <2>7. ASSUME NEW i \in DOMAIN rows[s], rows[s][i].kind = "session_end" PROVE i <= Len(log[s])
    <3>1. i \in 1..calls[s] /\ i # calls[s]
      BY <1>5, <2>6, <2>7
    <3> QED BY <1>2, <2>4, <3>1
  <2> QED BY <1>4, <1>5, <2>7 DEF Covers
<1> QED
  BY <1>6, <1>7

LEMMA AfterIs ==
    ASSUME NEW e \in Exports
    PROVE  /\ After(e).stage = e.stage + 1 /\ After(e).done = {} /\ After(e).copy = e.copy
           /\ After(e).hashing = e.hashing /\ After(e).logs = e.logs /\ After(e).sums = e.sums
           /\ After(e).moved = e.moved /\ After(e).lines = e.lines
BY DEF After, Exports

LEMMA StageOf ==
    ASSUME export \in Exports
    PROVE  /\ At("snapshot") => export.stage = 0
           /\ At("tables") => export.stage = 1
           /\ At("checks") => export.stage = 2
           /\ At("logs") => export.stage = 3
<1>1. export.stage \in 0..4
  BY DEF Exports
<1>2. Order[1] = "snapshot" /\ Order[2] = "tables" /\ Order[3] = "checks" /\ Order[4] = "logs"
  BY DEF Order
<1> QED
  BY <1>1, <1>2 DEF At

\* A stage that copies nothing.
LEMMA StageKeepsExport ==
    ASSUME TypeInv, ExportInv, UNCHANGED <<log, wrong>>, export.stage \in {1, 2},
           export'.stage \in {export.stage, export.stage + 1},
           export'.stage = 3 => export'.done = {},
           export'.copy = export.copy, export'.hashing = export.hashing
    PROVE  ExportInv'
<1>1. CopyInv'
  BY DEF ExportInv, CopyInv, Positions, CallsOf, FirstCalls, Covers, Clean
<1>2. export.hashing = 0
  BY DEF ExportInv, LogsInv
<1>3. \A s \in Sessions : ~Archived(s)'
  BY <1>2 DEF Archived
<1>4. LogsInv'
  BY <1>2, <1>3 DEF LogsInv
<1> QED
  BY <1>1, <1>4 DEF ExportInv

LEMMA SnapshotKeepsExport ==
    ASSUME TypeInv, LogInv, EndInv, ExportInv, Snapshot
    PROVE  ExportInv'
<1>1. Stored
  BY TypeInvParts
<1>2. export \in Exports /\ rows \in [Sessions -> Seq(Record)] /\ log' = log /\ wrong' = wrong
      /\ rows' = rows
  BY <1>1 DEF Stored, Snapshot, OnlyExport
<1> DEFINE cp == [status |-> status, rows |-> rows]
           e == [export EXCEPT !.copy = cp, !.moved = {c.s : c \in hand}]
<1>3. At("snapshot") /\ export' = After(e)
  BY DEF Snapshot
<1>4. e.stage = export.stage /\ e.copy = cp /\ e.hashing = export.hashing
  BY <1>2 DEF Exports
<1>5. After(e).stage = e.stage + 1 /\ After(e).copy = e.copy /\ After(e).hashing = e.hashing
  BY <1>2 DEF After, Exports
<1>6. export.stage = 0
  BY <1>2, <1>3, StageOf
<1>7. export'.stage = 1 /\ export'.copy = cp /\ export'.hashing = 0
  BY <1>3, <1>4, <1>5, <1>6 DEF ExportInv, LogsInv
<1> HIDE DEF e
<1>8. CopyInv'
  <2>1. ASSUME NEW s \in Sessions
        PROVE  /\ Positions(rows[s])
               /\ (Clean(s)' /\ status[s] \in Ended) =>
                    CallsOf(rows[s]) = FirstCalls(Len(rows[s])) /\ Covers(log[s], rows[s])
    <3>1. Positions(rows[s])
      BY DEF TypeInv, RowsNumbered, Positions
    <3>2. Clean(s)' => Clean(s)
      BY <1>2 DEF Clean
    <3> QED BY <3>1, <3>2, SnapshotIsCovered
  <2>2. \A s \in Sessions : export'.copy.rows[s] = rows[s] /\ export'.copy.status[s] = status[s]
    BY <1>7
  <2> QED BY <1>2, <2>1, <2>2 DEF CopyInv, Positions, CallsOf, FirstCalls, Covers
<1>9. LogsInv'
  BY <1>7 DEF LogsInv, Archived
<1> QED
  BY <1>8, <1>9 DEF ExportInv

LEMMA CountKeepsExport ==
    ASSUME TypeInv, ExportInv, WriteTables \/ \E s \in Sessions : CountLines(s)
    PROVE  ExportInv'
<1>1. export \in Exports /\ log \in [Sessions -> Seq(Record)]
  BY DEF TypeInv, TypeOK
<1>2. UNCHANGED <<log, wrong>>
  BY DEF WriteTables, CountLines, OnlyExport
<1>3. CASE WriteTables
  <2>1. PICK bad \in SUBSET (InLong(export) \cup InIncomplete(export)) :
          export' = After([export EXCEPT !.unread = bad])
    BY <1>3 DEF WriteTables
  <2>2. export.stage = 1
    BY <1>1, <1>3, StageOf DEF WriteTables
  <2>3. export'.stage = export.stage + 1 /\ export'.copy = export.copy /\ export'.hashing = export.hashing
    BY <1>1, <2>1 DEF After, Exports
  <2> QED BY <1>2, <2>2, <2>3, StageKeepsExport
<1>4. ASSUME NEW s \in Sessions, CountLines(s) PROVE ExportInv'
  <2> DEFINE e == [export EXCEPT !.lines[s] = Len(log[s])]
  <2>1. export' = IF s = NSessions THEN After(e) ELSE e
    BY <1>4 DEF CountLines
  <2>2. export.stage = 2
    BY <1>1, <1>4, StageOf DEF CountLines
  <2>3. /\ e \in Exports /\ e.stage = export.stage /\ e.copy = export.copy
        /\ e.hashing = export.hashing
    <3>1. Len(log[s]) \in Nat
      BY <1>1
    <3>2. e \in Exports
      BY <1>1, <3>1, LinesType
    <3> QED BY <1>1, <3>2 DEF Exports
  <2> HIDE DEF e
  <2>4. /\ export'.copy = export.copy /\ export'.hashing = export.hashing
        /\ \/ export'.stage = 2
           \/ export'.stage = 3 /\ export'.done = {}
    BY <2>1, <2>2, <2>3, AfterIs
  <2> QED BY <1>2, <2>2, <2>4, StageKeepsExport
<1> QED
  BY <1>3, <1>4

LEMMA ArchiveLogKeepsExport ==
    ASSUME TypeInv, LogInv, ExportInv, NEW s \in Sessions, ArchiveLog(s)
    PROVE  ExportInv'
<1>1. /\ export \in Exports /\ log \in [Sessions -> Seq(Record)]
  BY DEF TypeInv, TypeOK
<1>2. log' = log /\ wrong' = wrong
  BY DEF ArchiveLog, OnlyExport
<1>3. export.stage = 3 /\ export.hashing = 0 /\ \A t \in Sessions : t < s => t \in export.done
  BY <1>1, StageOf DEF ArchiveLog
<1>4. /\ export'.stage = 3 /\ export'.copy = export.copy /\ export'.done = export.done
      /\ export'.hashing = s /\ export'.sums = export.sums /\ export'.moved = export.moved
      /\ export'.logs = [export.logs EXCEPT ![s] = log[s]]
  BY <1>1, <1>3 DEF ArchiveLog, Exports
<1>5. export'.logs[s] = log[s] /\ \A t \in Sessions \ {s} : export'.logs[t] = export.logs[t]
  BY <1>1, <1>4 DEF Exports
<1>6. CopyInv'
  BY <1>2, <1>3, <1>4 DEF ExportInv, CopyInv, Positions, CallsOf, FirstCalls, Covers, Clean
<1>7. /\ export'.stage # 3 => export'.hashing = 0
      /\ export'.stage = 3 => \A t \in Sessions : t < export'.hashing => t \in export'.done
  BY <1>3, <1>4
<1>8. ASSUME NEW t \in Sessions, Archived(t)'
      PROVE  /\ (Clean(t)' /\ export'.copy.status[t] \in Ended) =>
                  /\ CallsOf(export'.logs[t]) = FirstCalls(Len(export'.logs[t]))
                  /\ Covers(export'.logs[t], export'.copy.rows[t])
             /\ t \notin export'.moved =>
                  IF t = export'.hashing THEN export'.logs[t] = log'[t]
                  ELSE export'.sums[t] = export'.logs[t]
  <2>1. CASE t = s
    <3>1. ASSUME Clean(s), export.copy.status[s] \in Ended
          PROVE  CallsOf(log[s]) = FirstCalls(Len(log[s])) /\ Covers(log[s], export.copy.rows[s])
      <4>1. Covers(log[s], export.copy.rows[s])
        BY <1>3, <3>1 DEF ExportInv, CopyInv
      <4>2. "line" \notin wrong[s]
        BY <3>1 DEF Clean
      <4>3. PICK n \in {calls[s], calls[s] - 1} : CallsOf(log[s]) = FirstCalls(n) /\ n \in Nat
        <5>1. calls[s] \in Nat
          BY TypeInvParts, CallsAreCounted
        <5>2. CASE Waiting(s) = {}
          BY <4>2, <5>1, <5>2 DEF LogInv, NoLineMissing
        <5>3. CASE Waiting(s) # {}
          <6>1. calls[s] > 0
            BY <5>3 DEF Waiting, LogInv, WaitingIsLast
          <6> QED BY <4>2, <5>1, <5>3, <6>1 DEF LogInv, NoLineMissing
        <5> QED BY <5>2, <5>3
      <4>4. Len(log[s]) = n
        BY <1>1, <4>3, CallsOfLength
      <4> QED BY <4>1, <4>3, <4>4
    <3>2. Clean(s)' => Clean(s)
      BY <1>2 DEF Clean
    <3> QED BY <1>2, <1>4, <1>5, <2>1, <3>1, <3>2
  <2>2. CASE t # s
    <3>1. Archived(t) /\ t # export.hashing
      BY <1>3, <1>4, <1>8, <2>2 DEF Archived
    <3>2. Clean(t)' => Clean(t)
      BY <1>2 DEF Clean
    <3> QED BY <1>2, <1>4, <1>5, <2>2, <3>1, <3>2 DEF ExportInv, LogsInv
  <2> QED BY <2>1, <2>2
<1>9. LogsInv'
  BY <1>7, <1>8 DEF LogsInv, CallsOf, FirstCalls, Covers
<1> QED
  BY <1>6, <1>9 DEF ExportInv

LEMMA HashLogKeepsExport ==
    ASSUME TypeInv, ExportInv, HashLog
    PROVE  ExportInv'
<1> DEFINE s == export.hashing
           e == [export EXCEPT !.sums[s] = log[s], !.hashing = 0, !.done = @ \cup {s}]
<1>1. /\ export \in Exports /\ log \in [Sessions -> Seq(Record)]
  BY DEF TypeInv, TypeOK
<1>2. log' = log /\ wrong' = wrong
  BY DEF HashLog, OnlyExport
<1>3. export.stage = 3 /\ s \in Sessions
  BY <1>1, StageOf DEF HashLog, Exports
<1>4. export' = IF s = NSessions THEN After(e) ELSE e
  BY DEF HashLog
<1>5. /\ e \in Exports /\ e.stage = 3 /\ e.copy = export.copy /\ e.done = export.done \cup {s}
      /\ e.hashing = 0 /\ e.logs = export.logs /\ e.moved = export.moved
      /\ e.sums = [export.sums EXCEPT ![s] = log[s]]
  BY <1>1, <1>3 DEF Exports
<1>6. e.sums[s] = log[s] /\ \A t \in Sessions \ {s} : e.sums[t] = export.sums[t]
  BY <1>1, <1>3, <1>5 DEF Exports
<1> DEFINE hs == export.hashing
<1>7. hs = s
  OBVIOUS
<1> HIDE DEF s, e
<1>8. /\ export'.copy = export.copy /\ export'.hashing = 0 /\ export'.logs = export.logs
      /\ export'.sums = e.sums /\ export'.moved = export.moved
      /\ \/ export'.stage = 3 /\ export'.done = export.done \cup {s}
         \/ export'.stage = 4 /\ s = NSessions
  BY <1>4, <1>5, AfterIs
<1>9. CopyInv'
  BY <1>2, <1>3, <1>8 DEF ExportInv, CopyInv, Positions, CallsOf, FirstCalls, Covers, Clean
<1>10. \A t \in Sessions : t < s => t \in export.done
  BY <1>3, <1>7 DEF ExportInv, LogsInv
<1>11. /\ export'.stage # 3 => export'.hashing = 0
       /\ export'.stage = 3 => \A t \in Sessions : t < export'.hashing => t \in export'.done
  BY <1>8
<1>12. ASSUME NEW t \in Sessions, Archived(t)'
       PROVE  /\ (Clean(t)' /\ export'.copy.status[t] \in Ended) =>
                   /\ CallsOf(export'.logs[t]) = FirstCalls(Len(export'.logs[t]))
                   /\ Covers(export'.logs[t], export'.copy.rows[t])
              /\ t \notin export'.moved =>
                   IF t = export'.hashing THEN export'.logs[t] = log'[t]
                   ELSE export'.sums[t] = export'.logs[t]
  <2>1. t \in export.done \/ t = s
    <3>1. CASE export'.stage = 3
      BY <1>8, <1>12, <3>1 DEF Archived
    <3>2. CASE export'.stage = 4
      <4>1. t < s \/ t = s
        BY <1>3, <1>8, <3>2
      <4> QED BY <1>10, <4>1
    <3> QED BY <1>8, <3>1, <3>2
  <2>2. Archived(t)
    BY <1>3, <1>7, <2>1 DEF Archived
  <2>3. Clean(t)' => Clean(t)
    BY <1>2 DEF Clean
  <2>4. /\ (Clean(t) /\ export.copy.status[t] \in Ended) =>
              /\ CallsOf(export.logs[t]) = FirstCalls(Len(export.logs[t]))
              /\ Covers(export.logs[t], export.copy.rows[t])
        /\ t \notin export.moved =>
              IF t = s THEN export.logs[t] = log[t] ELSE export.sums[t] = export.logs[t]
    BY <1>7, <2>2 DEF ExportInv, LogsInv
  <2>5. export'.hashing # t
    BY <1>8
  <2> QED BY <1>6, <1>8, <2>3, <2>4, <2>5
<1>13. LogsInv'
  BY <1>11, <1>12 DEF LogsInv, CallsOf, FirstCalls, Covers
<1> QED
  BY <1>9, <1>13 DEF ExportInv

LEMMA ExportInvNext ==
    ASSUME TypeInv, LogInv, EndInv, ExportInv, [Next]_avars
    PROVE  ExportInv'
<1>1. CASE Writes
  <2>1. WritesOn /\ TypeInv'
    BY <1>1, WritesAreOn, WritesKeepTypes
  <2> QED BY <2>1, WritesKeepExport
<1>2. CASE UNCHANGED avars
  BY <1>2 DEF avars, ExportInv, CopyInv, LogsInv, Archived, Positions, CallsOf, FirstCalls,
             Covers, Clean
<1> QED
  BY <1>1, <1>2, SnapshotKeepsExport, CountKeepsExport, ArchiveLogKeepsExport, HashLogKeepsExport
  DEF Next, BuildArchive

LEMMA ExportInvInit == Init => ExportInv
BY DEF Init, ExportInv, CopyInv, LogsInv, Archived

THEOREM ExportInvariant == Spec => [](EndInv /\ ExportInv)
<1>1. Init => EndInv /\ ExportInv
  BY EndInvInit, ExportInvInit
<1>2. TypeInv /\ LogInv /\ (EndInv /\ ExportInv) /\ [Next]_avars => (EndInv /\ ExportInv)'
  BY EndInvNext, ExportInvNext
<1> QED BY <1>1, <1>2, TypeInvariant, LogInvariant, PTL DEF Spec

\* A set of positions that is not empty has a first one.
LEMMA FirstOf ==
    ASSUME NEW S \in SUBSET Nat, S # {}
    PROVE  \E i \in S : \A j \in S : i <= j
<1> DEFINE R == {p \in Nat \X Nat : p[1] < p[2]}
<1>1. IsWellFoundedOn(R, Nat)
  BY NatLessThanWellFounded DEF OpToRel
<1>2. PICK x \in S : \A y \in S : ~ (<<y, x>> \in R)
  <2> HIDE DEF R
  <2> QED BY <1>1, WFMin
<1>3. ASSUME NEW y \in S PROVE x <= y
  <2>1. x \in Nat /\ y \in Nat
    OBVIOUS
  <2>2. ~ (y < x)
    BY <1>2, <2>1
  <2> QED BY <2>1, <2>2
<1> QED
  BY <1>3

\* Lines of the calls in order start with the lines of the first of them.
LEMMA FirstLinesArePrefix ==
    ASSUME NEW table \in Seq(Record), NEW lines \in Seq(Record), NEW m \in 0..Len(table),
           CallsOf(table) = FirstCalls(Len(table)), CallsOf(lines) = FirstCalls(Len(lines)),
           m <= Len(lines)
    PROVE  IsPrefix(CallsOf(SubSeq(table, 1, m)), CallsOf(lines))
<1> DEFINE told == SubSeq(table, 1, m)
           l == Len(lines)
<1>1. l \in Nat /\ Len(table) \in Nat /\ m \in Nat /\ DOMAIN table = 1..Len(table)
  OBVIOUS
<1>2. told = [i \in 1..m |-> table[i]]
  BY <1>1
<1>3. \A i \in 1..Len(table) : table[i].call = i
  <2>1. \A i \in 1..Len(table) : CallsOf(table)[i] = table[i].call /\ FirstCalls(Len(table))[i] = i
    BY <1>1 DEF CallsOf, FirstCalls
  <2> QED BY <2>1
<1>4. CallsOf(told) = [i \in 1..m |-> i]
  <2>1. DOMAIN told = 1..m /\ \A i \in 1..m : told[i].call = i
    BY <1>1, <1>2, <1>3
  <2> HIDE DEF told
  <2>2. CallsOf(told) = [i \in 1..m |-> told[i].call]
    BY <2>1 DEF CallsOf
  <2> QED BY <2>1, <2>2
<1>5. CallsOf(lines) = [i \in 1..l |-> i]
  BY DEF FirstCalls
<1> HIDE DEF told, l
<1> DEFINE a == [i \in 1..m |-> i]
           b == [i \in 1..l |-> i]
<1>6. a \in Seq(Nat) /\ b \in Seq(Nat) /\ Len(a) = m /\ Len(b) = l
  BY <1>1
<1>7. SubSeq(a, 1, m) = [i \in 1..m |-> i]
  BY <1>1, <1>6
<1>8. SubSeq(b, 1, m) = [i \in 1..m |-> i]
  <2>1. m <= l
    BY DEF l
  <2> QED BY <1>1, <1>6, <2>1
<1>9. m <= l
  BY DEF l
<1> HIDE DEF a, b
<1>10. IsPrefix(a, b)
  BY <1>6, <1>7, <1>8, <1>9 DEF IsPrefix
<1> QED
  BY <1>4, <1>5, <1>10 DEF told, a, b

LEMMA Whole ==
    ASSUME TypeInv, ExportInv, Finished, NEW s \in Sessions, export.copy.status[s] \in Ended
    PROVE  LET table == LongRows(export.copy.rows[s])
               upto == {i \in DOMAIN table : table[i].kind = "session_end"}
               told == IF upto = {} THEN <<>>
                       ELSE SubSeq(table, 1, CHOOSE i \in upto : \A j \in upto : i <= j)
           IN  /\ s \in InLong(export) \cup InIncomplete(export)
               /\ wrong[s] \subseteq {"late", "endless"} =>
                    IsPrefix(CallsOf(told), CallsOf(export.logs[s]))
               /\ s \notin export.moved => export.sums[s] = export.logs[s]
<1> DEFINE table == LongRows(export.copy.rows[s])
           lines == export.logs[s]
           upto == {i \in DOMAIN table : table[i].kind = "session_end"}
           first == CHOOSE i \in upto : \A j \in upto : i <= j
           told == IF upto = {} THEN <<>> ELSE SubSeq(table, 1, first)
<1>1. export \in Exports
  BY DEF TypeInv, TypeOK
<1>2. export.copy.rows[s] \in Seq(Record) /\ lines \in Seq(Record)
  BY <1>1 DEF Exports, Copy
<1>3. export.stage = 4 /\ export.hashing = 0 /\ Archived(s)
  BY DEF Finished, ExportInv, LogsInv, Archived
<1>4. Positions(export.copy.rows[s])
  BY <1>3 DEF ExportInv, CopyInv
<1>5. table = export.copy.rows[s]
  BY <1>2, <1>4, LongRowsAreTheRows
<1>6. s \in InLong(export) \cup InIncomplete(export)
  BY DEF InLong, InIncomplete
<1>7. s \notin export.moved => export.sums[s] = export.logs[s]
  BY <1>3 DEF ExportInv, LogsInv
<1>8. ASSUME wrong[s] \subseteq {"late", "endless"}
      PROVE  IsPrefix(CallsOf(told), CallsOf(lines))
  <2>1. Clean(s)
    BY <1>8 DEF Clean
  <2>2. /\ CallsOf(table) = FirstCalls(Len(table))
        /\ CallsOf(lines) = FirstCalls(Len(lines)) /\ Covers(lines, table)
    BY <1>3, <1>5, <2>1 DEF ExportInv, CopyInv, LogsInv
  <2>3. table \in Seq(Record) /\ lines \in Seq(Record)
    BY <1>2, <1>5
  <2> HIDE DEF table, lines
  <2>4. Len(table) \in Nat /\ DOMAIN table = 1..Len(table) /\ Len(lines) \in Nat
    BY <2>3
  <2>5. CASE upto = {}
    <3>1. told = SubSeq(table, 1, 0)
      BY <2>3, <2>4, <2>5
    <3> HIDE DEF told
    <3>2. 0 \in 0..Len(table) /\ 0 <= Len(lines)
      BY <2>4
    <3>3. IsPrefix(CallsOf(SubSeq(table, 1, 0)), CallsOf(lines))
      BY <2>2, <2>3, <3>2, FirstLinesArePrefix
    <3> QED BY <3>1, <3>3
  <2>6. CASE upto # {}
    <3>1. upto \in SUBSET Nat
      BY <2>4
    <3>2. \E i \in upto : \A j \in upto : i <= j
      <4> HIDE DEF upto
      <4> QED BY <2>6, <3>1, FirstOf
    <3>3. first \in upto
      BY <3>2
    <3> HIDE DEF first
    <3>4. first \in 0..Len(table) /\ first <= Len(lines)
      BY <2>2, <2>4, <3>3 DEF Covers
    <3>5. told = SubSeq(table, 1, first)
      BY <2>6
    <3> HIDE DEF told
    <3>6. IsPrefix(CallsOf(SubSeq(table, 1, first)), CallsOf(lines))
      BY <2>2, <2>3, <3>4, FirstLinesArePrefix
    <3> QED BY <3>5, <3>6
  <2> QED BY <2>5, <2>6
<1> QED
  BY <1>6, <1>7, <1>8

\* The archive is one record of every session that had ended when its database
\* was copied, whatever is written to it while the rest is read.
THEOREM TheArchiveIsWhole == Spec => []ArchiveIsWhole
<1>1. TypeInv /\ ExportInv => ArchiveIsWhole
  BY Whole DEF ArchiveIsWhole
<1> QED BY <1>1, TypeInvariant, ExportInvariant, PTL

-----------------------------------------------------------------------------
(***************************************************************************)
(* The checks.  What is lost is missed in the numbers of rows and lines,   *)
(* and what else goes wrong shows in the rows; both hold of a session at   *)
(* any time, and of its copy while it does not move.                       *)
(***************************************************************************)

\* An end that has its row and has still to set the status
EndInHandOf(s) == {c \in hand : c.s = s /\ c.set # "none"}

Twice(copied) == \E i, j \in Ends(copied) : i # j
AfterAnEnd(copied) ==
    \E i \in Ends(copied), j \in DOMAIN copied : i < j /\ copied[j].kind # "session_end"

\* Of copied rows, lines, calls, what went wrong and the calls that have a line
\* to write: what is lost leaves fewer rows, or fewer lines, than calls.
Counts(copied, lines, n, w, waiting) ==
    /\ Len(copied) <= n
    /\ "row" \in w => Len(copied) < n
    /\ "line" \in w => Len(lines) + (IF waiting = {} THEN 0 ELSE 1) < n

\* While no row is lost, an end that did not set its status leaves one end too
\* many, an end with no row of its own none, and what came late follows the end.
Story(copied, w, now, ending) ==
    /\ "endless" \in w => now \in Ended
    /\ "row" \notin w =>
         /\ (now \in Ended /\ "endless" \notin w) \/ ending # {} => Ends(copied) # {}
         /\ "end" \in w /\ "endless" \notin w =>
              Ends(copied) # {} /\ (now \in Ended \/ ending # {} => Twice(copied))
         /\ "end" \notin w /\ Ends(copied) # {} =>
              (now \in Ended \/ ending # {}) /\ "endless" \notin w
         /\ "end" \notin w /\ "late" \notin w => \A i \in Ends(copied) : i = Len(copied)
         /\ "late" \in w /\ "endless" \notin w => AfterAnEnd(copied)

CountInv == \A s \in Sessions : Counts(rows[s], log[s], calls[s], wrong[s], Waiting(s))
StoryInv == \A s \in Sessions : Story(rows[s], wrong[s], status[s], EndInHandOf(s))

\* Since the snapshot a session that has not moved is as it was copied, and the
\* lines that were counted are those it has.
StillInv ==
    /\ export.stage = 0 => \A s \in Sessions : export.lines[s] = -1
    /\ export.stage > 0 =>
         \A s \in Sessions \ export.moved :
           /\ export.copy.rows[s] = rows[s] /\ export.copy.status[s] = status[s]
           /\ \A c \in hand : c.s # s
           /\ export.lines[s] # -1 => export.lines[s] = Len(log[s])
    /\ export.stage > 2 => \A s \in Sessions : export.lines[s] # -1

LEMMA OneMoreRow ==
    ASSUME NEW r \in Seq(Record), NEW q \in Record, NEW a, a = Append(r, q)
    PROVE  /\ Len(r) \in Nat /\ Len(a) = Len(r) + 1 /\ Len(r) + 1 \in DOMAIN a
           /\ q.kind = "session_end" =>
                /\ Ends(a) = Ends(r) \cup {Len(r) + 1}
                /\ Ends(r) # {} => Twice(a)
           /\ q.kind # "session_end" =>
                /\ Ends(a) = Ends(r)
                /\ Ends(r) # {} => AfterAnEnd(a)
           /\ Twice(r) => Twice(a)
           /\ AfterAnEnd(r) => AfterAnEnd(a)
<1> DEFINE n == Len(r)
<1>1. /\ n \in Nat /\ Len(a) = n + 1 /\ DOMAIN r = 1..n /\ DOMAIN a = 1..(n + 1)
      /\ a[n + 1] = q /\ \A i \in 1..n : a[i] = r[i]
  OBVIOUS
<1> HIDE DEF n
<1>2. \A i : i \in DOMAIN a <=> i \in DOMAIN r \/ i = n + 1
  BY <1>1
<1>3. \A i \in DOMAIN r : i < n + 1 /\ i \in Nat /\ a[i] = r[i]
  BY <1>1
<1>4. Ends(a) = IF q.kind = "session_end" THEN Ends(r) \cup {n + 1} ELSE Ends(r)
  <2>1. n + 1 \notin DOMAIN r
    BY <1>1
  <2> QED BY <1>1, <1>2, <1>3, <2>1 DEF Ends
<1>5. \A i \in Ends(r) : i \in DOMAIN r /\ i \in Ends(a) /\ i < n + 1
  BY <1>3, <1>4 DEF Ends
<1>6. Twice(r) => Twice(a)
  BY <1>5 DEF Twice
<1>7. AfterAnEnd(r) => AfterAnEnd(a)
  BY <1>2, <1>3, <1>5 DEF AfterAnEnd
<1>8. q.kind = "session_end" /\ Ends(r) # {} => Twice(a)
  <2> SUFFICES ASSUME q.kind = "session_end", NEW i \in Ends(r) PROVE Twice(a)
    OBVIOUS
  <2>1. i \in Ends(a) /\ n + 1 \in Ends(a) /\ i # n + 1
    <3>1. i < n + 1 /\ i \in Nat
      BY <1>3, <1>5
    <3> QED BY <1>1, <1>4, <1>5, <3>1
  <2> QED BY <2>1 DEF Twice
<1>9. q.kind # "session_end" /\ Ends(r) # {} => AfterAnEnd(a)
  <2> SUFFICES ASSUME q.kind # "session_end", NEW i \in Ends(r) PROVE AfterAnEnd(a)
    OBVIOUS
  <2>1. i \in Ends(a) /\ i < n + 1 /\ n + 1 \in DOMAIN a /\ a[n + 1].kind # "session_end"
    BY <1>1, <1>2, <1>5
  <2> QED BY <2>1 DEF AfterAnEnd
<1> QED
  BY <1>1, <1>2, <1>4, <1>6, <1>7, <1>8, <1>9 DEF n

\* A row more: of a session that goes on, that has ended, or its end.
LEMMA StoryGoesOn ==
    ASSUME NEW r \in Seq(Record), NEW q \in Record, NEW w, NEW now, NEW a, a = Append(r, q),
           Story(r, w, now, {})
    PROVE  /\ now \notin Ended /\ q.kind # "session_end" => Story(a, w, now, {})
           /\ now \in Ended /\ q.kind # "session_end" => Story(a, w \cup {"late"}, now, {})
           /\ now \notin Ended /\ q.kind = "session_end" =>
                \A ending : ending # {} => Story(a, w, now, ending)
<1>1. /\ Len(r) \in Nat /\ Len(a) = Len(r) + 1
      /\ q.kind = "session_end" => Ends(a) = Ends(r) \cup {Len(r) + 1} /\ (Ends(r) # {} => Twice(a))
      /\ q.kind # "session_end" => Ends(a) = Ends(r) /\ (Ends(r) # {} => AfterAnEnd(a))
      /\ Twice(r) => Twice(a)
      /\ AfterAnEnd(r) => AfterAnEnd(a)
  BY OneMoreRow
<1>2. CASE now \notin Ended /\ q.kind # "session_end"
  BY <1>1, <1>2 DEF Story
<1>3. CASE now \in Ended /\ q.kind # "session_end"
  BY <1>1, <1>3 DEF Story
<1>4. ASSUME now \notin Ended, q.kind = "session_end", NEW ending, ending # {}
      PROVE  Story(a, w, now, ending)
  BY <1>1, <1>4 DEF Story
<1> QED
  BY <1>2, <1>3, <1>4


\* No row more: one that is lost, an end that is done, one that is not, and
\* one that could not have a row.
LEMMA StoryOtherwise ==
    ASSUME NEW r, NEW w, NEW now, NEW ending, Story(r, w, now, ending)
    PROVE  /\ \A due : Story(r, w \cup {"row"}, now, due)
           /\ Story(r, w \cup {"line"}, now, ending)
           /\ now \notin Ended /\ ending # {} =>
                /\ \A set \in Ended : Story(r, w, set, {})
                /\ Story(r, w \cup {"end"}, now, {})
           /\ now \notin Ended /\ ending = {} =>
                \A set \in Ended : Story(r, w \cup {"endless"}, set, {})
<1>1. ASSUME NEW due PROVE Story(r, w \cup {"row"}, now, due)
  BY DEF Story
<1>2. Story(r, w \cup {"line"}, now, ending)
  BY DEF Story
<1>3. ASSUME now \notin Ended, ending # {}, NEW set \in Ended
      PROVE  Story(r, w, set, {})
  BY <1>3 DEF Story
<1>4. ASSUME now \notin Ended, ending # {}
      PROVE  Story(r, w \cup {"end"}, now, {})
  BY <1>4 DEF Story
<1>5. ASSUME now \notin Ended, ending = {}, NEW set \in Ended
      PROVE  Story(r, w \cup {"endless"}, set, {})
  BY <1>5 DEF Story
<1> QED
  BY <1>1, <1>2, <1>3, <1>4, <1>5

\* A call that is inserted is counted, with its row or without.
LEMMA InsertKeepsChecks ==
    ASSUME TypeInv, CountInv, StoryInv, NEW s \in Sessions, NEW kind \in Kinds,
           NEW set \in Ended \cup {"none"}, NEW late \in SUBSET {"late"},
           Insert(s, kind, set, late), status' = status, log' = log,
           late = {"late"} <=> status[s] \in Ended,
           set # "none" <=> kind = "session_end", set # "none" => status[s] \notin Ended
    PROVE  CountInv' /\ StoryInv'
<1> DEFINE n == Len(rows[s])
<1>1. Stored
  BY TypeInvParts
<1>2. /\ rows \in [Sessions -> Seq(Record)] /\ log \in [Sessions -> Seq(Record)]
      /\ calls \in [Sessions -> 0..MaxCalls] /\ wrong \in [Sessions -> SUBSET Wrongs]
  BY <1>1 DEF Stored
<1>3. n \in Nat /\ hand = {} /\ calls' = [calls EXCEPT ![s] = calls[s] + 1]
  BY InsertDoes
<1>4. PICK seq \in {NoSeq, n + 1} :
        /\ hand' = {InCall(s, kind, seq, set)}
        /\ \/ /\ seq = n + 1
              /\ rows' = [rows EXCEPT ![s] = Append(rows[s], Line(s, kind, seq))]
              /\ GoesWrong(s, late)
           \/ rows' = rows /\ GoesWrong(s, {"row"})
  BY InsertDoes
<1>5. seq \in Nat
  BY <1>3
<1> DEFINE r == Line(s, kind, seq)
           c == InCall(s, kind, seq, set)
<1>6. r \in Record /\ r.kind = kind /\ c.s = s /\ c.set = set /\ c.at = "line"
  BY <1>1, <1>5, InCallType DEF Line, InCall
<1>7. calls[s] \in Nat /\ Len(log[s]) \in Nat /\ rows[s] \in Seq(Record)
  BY <1>1, <1>2, CallsAreCounted
<1>8. hand' = {c}
  BY <1>4
<1>9. \/ wrong'[s] = wrong[s] \cup late /\ rows'[s] = Append(rows[s], r)
      \/ wrong'[s] = wrong[s] \cup {"row"} /\ rows'[s] = rows[s]
  <2>1. CASE rows' = [rows EXCEPT ![s] = Append(rows[s], r)] /\ GoesWrong(s, late)
    <3> HIDE DEF r
    <3> QED BY <1>2, <2>1 DEF GoesWrong
  <2>2. CASE rows' = rows /\ GoesWrong(s, {"row"})
    BY <1>2, <2>2 DEF GoesWrong
  <2> QED BY <1>4, <2>1, <2>2
<1>10. \A t \in Sessions \ {s} : /\ rows'[t] = rows[t] /\ wrong'[t] = wrong[t]
                                 /\ calls'[t] = calls[t]
  BY <1>2, <1>3, <1>4 DEF GoesWrong
<1>11. calls'[s] = calls[s] + 1
  BY <1>2, <1>3
<1> HIDE DEF n, r, c
<1>12. /\ Waiting(s) = {} /\ Waiting(s)' = {c}
       /\ EndInHandOf(s) = {} /\ EndInHandOf(s)' = (IF set = "none" THEN {} ELSE {c})
       /\ \A t \in Sessions \ {s} : /\ Waiting(t) = {} /\ Waiting(t)' = {}
                                    /\ EndInHandOf(t) = {} /\ EndInHandOf(t)' = {}
  BY <1>3, <1>6, <1>8 DEF Waiting, EndInHandOf
<1>13. Counts(rows'[s], log[s], calls[s] + 1, wrong'[s], {c})
  <2>1. Counts(rows[s], log[s], calls[s], wrong[s], {})
    BY <1>12 DEF CountInv
  <2>2. Len(rows[s]) \in Nat /\ {c} # {}
    BY <1>7
  <2> DEFINE k == calls[s]
             l == Len(log[s])
             m == Len(rows[s])
  <2>3. k \in Nat /\ l \in Nat /\ m \in Nat
    BY <1>7, <2>2
  <2>4. m <= k /\ ("row" \in wrong[s] => m < k) /\ ("line" \in wrong[s] => l + 0 < k)
    BY <2>1 DEF Counts
  <2> HIDE DEF k, l, m
  <2>5. CASE wrong'[s] = wrong[s] \cup late /\ rows'[s] = Append(rows[s], r)
    <3>1. Len(rows'[s]) = m + 1
      BY <1>6, <1>7, <2>5 DEF m
    <3>2. "row" \in wrong'[s] => "row" \in wrong[s]
      BY <2>5
    <3>3. "line" \in wrong'[s] => "line" \in wrong[s]
      BY <2>5
    <3>4. m + 1 <= k + 1 /\ ("row" \in wrong'[s] => m + 1 < k + 1)
          /\ ("line" \in wrong'[s] => l + 1 < k + 1)
      BY <2>3, <2>4, <3>2, <3>3
    <3> QED BY <2>2, <3>1, <3>4 DEF Counts, k, l
  <2>6. CASE wrong'[s] = wrong[s] \cup {"row"} /\ rows'[s] = rows[s]
    <3>1. "line" \in wrong'[s] => "line" \in wrong[s]
      BY <2>6
    <3>2. m <= k + 1 /\ m < k + 1 /\ ("line" \in wrong'[s] => l + 1 < k + 1)
      BY <2>3, <2>4, <3>1
    <3> QED BY <2>2, <2>6, <3>2 DEF Counts, k, l, m
  <2> QED BY <1>9, <2>5, <2>6
<1>14. Story(rows'[s], wrong'[s], status[s], EndInHandOf(s)')
  <2> DEFINE due == IF set = "none" THEN {} ELSE {c}
  <2>1. Story(rows[s], wrong[s], status[s], {})
    BY <1>12 DEF StoryInv
  <2>2. due # {} <=> set # "none"
    OBVIOUS
  <2>3. CASE wrong'[s] = wrong[s] \cup late /\ rows'[s] = Append(rows[s], r)
    <3> DEFINE a == Append(rows[s], r)
    <3>1. a = Append(rows[s], r)
      OBVIOUS
    <3> HIDE DEF a, due
    <3>2. CASE status[s] \in Ended
      <4>1. kind # "session_end" /\ due = {} /\ late = {"late"}
        BY <2>2, <3>2
      <4>2. Story(a, wrong[s] \cup {"late"}, status[s], {})
        BY <1>6, <1>7, <2>1, <3>1, <3>2, <4>1, StoryGoesOn
      <4> QED BY <1>12, <2>3, <3>1, <4>1, <4>2 DEF due
    <3>3. CASE status[s] \notin Ended
      <4>1. late = {} /\ wrong'[s] = wrong[s]
        BY <2>3, <3>3
      <4>2. CASE kind # "session_end"
        <5>1. due = {}
          BY <2>2, <4>2
        <5>2. Story(a, wrong[s], status[s], {})
          BY <1>6, <1>7, <2>1, <3>1, <3>3, <4>2, StoryGoesOn
        <5> QED BY <1>12, <2>3, <3>1, <4>1, <5>1, <5>2 DEF due
      <4>3. CASE kind = "session_end"
        <5>1. due # {}
          BY <2>2, <4>3
        <5>2. Story(a, wrong[s], status[s], due)
          BY <1>6, <1>7, <2>1, <3>1, <3>3, <4>3, <5>1, StoryGoesOn
        <5> QED BY <1>12, <2>3, <3>1, <4>1, <5>2 DEF due
      <4> QED BY <4>2, <4>3
    <3> QED BY <3>2, <3>3
  <2>4. CASE wrong'[s] = wrong[s] \cup {"row"} /\ rows'[s] = rows[s]
    <3>1. Story(rows[s], wrong[s] \cup {"row"}, status[s], due)
      <4> HIDE DEF due
      <4> QED BY <2>1, StoryOtherwise
    <3> QED BY <1>12, <2>4, <3>1
  <2> QED BY <1>9, <2>3, <2>4
<1>15. CountInv'
  <2>1. ASSUME NEW t \in Sessions \ {s}
        PROVE  Counts(rows'[t], log'[t], calls'[t], wrong'[t], Waiting(t)')
    BY <1>10, <1>12 DEF CountInv
  <2>2. \A t \in Sessions : Counts(rows'[t], log'[t], calls'[t], wrong'[t], Waiting(t)')
    BY <1>11, <1>12, <1>13, <2>1
  <2> QED BY <2>2 DEF CountInv, Counts
<1>16. StoryInv'
  <2>1. ASSUME NEW t \in Sessions \ {s}
        PROVE  Story(rows'[t], wrong'[t], status'[t], EndInHandOf(t)')
    BY <1>10, <1>12 DEF StoryInv
  <2>2. \A t \in Sessions : Story(rows'[t], wrong'[t], status'[t], EndInHandOf(t)')
    BY <1>14, <2>1
  <2> QED BY <2>2 DEF StoryInv, Story, Ends, Twice, AfterAnEnd
<1> QED
  BY <1>15, <1>16

\* Steps of one session's call, or of none, that insert nothing: of every other
\* session nothing is changed.
LEMMA OneKeepsChecks ==
    ASSUME CountInv, StoryInv, NEW s \in Sessions, rows' = rows, calls' = calls,
           \A t \in Sessions \ {s} :
             /\ log'[t] = log[t] /\ wrong'[t] = wrong[t] /\ status'[t] = status[t]
             /\ Waiting(t)' = Waiting(t) /\ EndInHandOf(t)' = EndInHandOf(t),
           Counts(rows[s], log'[s], calls[s], wrong'[s], Waiting(s)'),
           Story(rows[s], wrong'[s], status'[s], EndInHandOf(s)')
    PROVE  CountInv' /\ StoryInv'
<1>1. \A t \in Sessions :
        /\ Counts(rows'[t], log'[t], calls'[t], wrong'[t], Waiting(t)')
        /\ Story(rows'[t], wrong'[t], status'[t], EndInHandOf(t)')
  BY DEF CountInv, StoryInv
<1> QED
  BY <1>1 DEF CountInv, StoryInv, Counts, Story, Ends, Twice, AfterAnEnd

LEMMA SameKeepsChecks ==
    ASSUME CountInv, StoryInv, UNCHANGED <<rows, calls, log, wrong, status, hand>>
    PROVE  CountInv' /\ StoryInv'
<1>1. \A s \in Sessions : Waiting(s)' = Waiting(s) /\ EndInHandOf(s)' = EndInHandOf(s)
  BY DEF Waiting, EndInHandOf
<1>2. \A t \in Sessions :
        /\ Counts(rows'[t], log'[t], calls'[t], wrong'[t], Waiting(t)')
        /\ Story(rows'[t], wrong'[t], status'[t], EndInHandOf(t)')
  BY <1>1 DEF CountInv, StoryInv
<1> QED
  BY <1>2 DEF CountInv, StoryInv, Counts, Story, Ends, Twice, AfterAnEnd

\* A call whose line is to be written has one coming, or had the last one lost.
LEMMA LineIsDue ==
    ASSUME TypeInv, LogInv, CountInv, NEW s \in Sessions, Waiting(s) # {}
    PROVE  Len(log[s]) \in Nat /\ calls[s] \in Nat /\ Len(log[s]) + 1 <= calls[s]
<1>1. Stored
  BY TypeInvParts
<1>2. log[s] \in Seq(Record) /\ calls[s] \in Nat /\ Len(log[s]) \in Nat
  BY <1>1, CallsAreCounted DEF Stored
<1>3. CASE "line" \in wrong[s]
  <2>1. Counts(rows[s], log[s], calls[s], wrong[s], Waiting(s))
    BY DEF CountInv
  <2>2. Len(log[s]) + 1 < calls[s]
    BY <1>3, <2>1 DEF Counts
  <2> QED BY <1>2, <2>2
<1>4. CASE "line" \notin wrong[s]
  <2>1. calls[s] > 0
    BY DEF Waiting, LogInv, WaitingIsLast
  <2>2. CallsOf(log[s]) = FirstCalls(calls[s] - 1) /\ calls[s] - 1 \in Nat
    BY <1>2, <1>4, <2>1 DEF LogInv, NoLineMissing
  <2>3. Len(log[s]) = calls[s] - 1
    BY <1>2, <2>2, CallsOfLength
  <2> QED BY <1>2, <2>3
<1> QED
  BY <1>2, <1>3, <1>4

\* A line that was waiting is written, or lost.
LEMMA CountsGoOn ==
    ASSUME NEW r, NEW lines, NEW more, NEW n \in Nat, NEW w, NEW v, NEW waiting, waiting # {},
           Counts(r, lines, n, w, waiting), Len(lines) \in Nat, Len(lines) + 1 <= n,
           "row" \in v => "row" \in w,
           \/ Len(more) = Len(lines) + 1 /\ ("line" \in v => "line" \in w)
           \/ Len(more) = Len(lines)
    PROVE  Counts(r, more, n, v, {})
<1> DEFINE l == Len(lines)
<1>1. "line" \in w => l + 1 < n
  BY DEF Counts
<1>2. CASE Len(more) = l + 1 /\ ("line" \in v => "line" \in w)
  <2>1. "line" \in v => Len(more) + 0 < n
    BY <1>1, <1>2
  <2> QED BY <2>1 DEF Counts
<1>3. CASE Len(more) = l
  <2>1. Len(more) + 0 < n
    BY <1>3
  <2> QED BY <2>1 DEF Counts
<1> QED
  BY <1>2, <1>3

LEMMA AppendKeepsChecks ==
    ASSUME TypeInv, LogInv, CountInv, StoryInv, NEW c \in hand, AppendLine(c)
    PROVE  CountInv' /\ StoryInv'
<1> DEFINE s == c.s
<1>1. Stored /\ OneInHand
  BY TypeInvParts
<1>2. log \in [Sessions -> Seq(Record)] /\ wrong \in [Sessions -> SUBSET Wrongs]
  BY <1>1 DEF Stored
<1>3. hand = {c} /\ c \in Call /\ s \in Sessions /\ c.line \in Record /\ c.at = "line"
  BY <1>1 DEF OneInHand, Call, AppendLine
<1> DEFINE d == [c EXCEPT !.at = "status"]
<1>4. /\ hand' = (IF c.set = "none" THEN {} ELSE {d})
      /\ rows' = rows /\ calls' = calls /\ status' = status
      /\ \/ log' = [log EXCEPT ![s] = Append(log[s], c.line)] /\ wrong' = wrong
         \/ log' = log /\ GoesWrong(s, {"line"})
  <2>1. hand \ {c} = {}
    BY <1>3
  <2> QED BY <2>1 DEF AppendLine
<1>5. d.at = "status" /\ d.s = s /\ d.set = c.set
  BY <1>3 DEF Call
<1> HIDE DEF d, s
<1>6. c.s = s
  BY DEF s
<1>7. /\ Waiting(s) = {c} /\ Waiting(s)' = {}
      /\ EndInHandOf(s) = (IF c.set = "none" THEN {} ELSE {c})
      /\ EndInHandOf(s)' = (IF c.set = "none" THEN {} ELSE {d})
      /\ \A t \in Sessions \ {s} : /\ Waiting(t) = {} /\ Waiting(t)' = {}
                                   /\ EndInHandOf(t) = {} /\ EndInHandOf(t)' = {}
  BY <1>3, <1>4, <1>5, <1>6 DEF Waiting, EndInHandOf
<1>8. \A t \in Sessions \ {s} : log'[t] = log[t] /\ wrong'[t] = wrong[t] /\ status'[t] = status[t]
  BY <1>2, <1>3, <1>4 DEF GoesWrong
<1>9. Len(log[s]) \in Nat /\ calls[s] \in Nat /\ Len(log[s]) + 1 <= calls[s]
  BY <1>3, <1>7, LineIsDue
<1>10. Counts(rows[s], log[s], calls[s], wrong[s], {c}) /\ {c} # {}
  BY <1>3, <1>7 DEF CountInv
<1>11. Story(rows[s], wrong[s], status[s], EndInHandOf(s)')
  <2>1. Story(rows[s], wrong[s], status[s], EndInHandOf(s))
    BY <1>3 DEF StoryInv
  <2>2. CASE c.set = "none"
    BY <1>7, <2>1, <2>2
  <2>3. CASE c.set # "none"
    <3>1. Story(rows[s], wrong[s], status[s], {c})
      BY <1>7, <2>1, <2>3
    <3>2. Story(rows[s], wrong[s], status[s], {d})
      BY <3>1 DEF Story
    <3> QED BY <1>7, <2>3, <3>2
  <2> QED BY <2>2, <2>3
<1>12. CASE log' = [log EXCEPT ![s] = Append(log[s], c.line)] /\ wrong' = wrong
  <2>1. log'[s] = Append(log[s], c.line)
    BY <1>2, <1>3, <1>12
  <2>2. log[s] \in Seq(Record)
    BY <1>2, <1>3
  <2>3. Len(log'[s]) = Len(log[s]) + 1
    BY <1>3, <2>1, <2>2
  <2>4. Counts(rows[s], log'[s], calls[s], wrong'[s], {})
    BY <1>9, <1>10, <1>12, <2>3, CountsGoOn
  <2> QED BY <1>3, <1>4, <1>7, <1>8, <1>11, <1>12, <2>4, OneKeepsChecks
<1>13. CASE log' = log /\ GoesWrong(s, {"line"})
  <2>1. wrong'[s] = wrong[s] \cup {"line"}
    BY <1>2, <1>3, <1>13 DEF GoesWrong
  <2>2. Counts(rows[s], log'[s], calls[s], wrong'[s], {})
    <3>1. "row" \in wrong'[s] => "row" \in wrong[s]
      BY <2>1
    <3> QED BY <1>9, <1>10, <1>13, <3>1, CountsGoOn
  <2>3. Story(rows[s], wrong'[s], status'[s], EndInHandOf(s)')
    <3>1. Story(rows[s], wrong[s] \cup {"line"}, status[s], EndInHandOf(s)')
      BY <1>11, StoryOtherwise
    <3> QED BY <1>4, <2>1, <3>1
  <2> QED BY <1>3, <1>4, <1>7, <1>8, <2>2, <2>3, OneKeepsChecks
<1> QED
  BY <1>4, <1>12, <1>13

\* An end in hand is of a session that has not ended.
LEMMA EndingGoesOn ==
    ASSUME EndInv, NEW s \in Sessions, EndInHandOf(s) # {}
    PROVE  status[s] \notin Ended
BY DEF EndInv, EndInHand, EndInHandOf

LEMMA SettleKeepsChecks ==
    ASSUME TypeInv, LogInv, EndInv, CountInv, StoryInv, NEW c \in hand, SetStatus(c) \/ Crash(c)
    PROVE  CountInv' /\ StoryInv'
<1> DEFINE s == c.s
<1>1. Stored /\ OneInHand
  BY TypeInvParts
<1>2. /\ status \in [Sessions -> {"active"} \cup Ended] /\ wrong \in [Sessions -> SUBSET Wrongs]
  BY <1>1 DEF Stored
<1>3. /\ hand = {c} /\ c \in Call /\ s \in Sessions /\ c.set \in Ended \cup {"none"}
      /\ c.at \in {"line", "status"} /\ c.at = "status" => c.set # "none"
  BY <1>1 DEF OneInHand, Call
<1>4. rows' = rows /\ calls' = calls /\ log' = log /\ hand' = {}
  BY <1>3 DEF SetStatus, Crash
<1>5. \/ /\ c.at = "status" /\ wrong' = wrong
         /\ status' = [status EXCEPT ![s] = IF status[s] = "active" THEN c.set ELSE status[s]]
      \/ c.at = "status" /\ GoesWrong(s, {"end"}) /\ status' = status
      \/ /\ GoesWrong(s, (IF c.at = "line" THEN {"line"} ELSE {}) \cup
                         (IF c.set = "none" THEN {} ELSE {"end"}))
         /\ status' = status
  BY DEF SetStatus, Crash
<1> HIDE DEF s
<1>6. c.s = s
  BY DEF s
<1>7. /\ Waiting(s) = (IF c.at = "line" THEN {c} ELSE {}) /\ Waiting(s)' = {}
      /\ EndInHandOf(s) = (IF c.set = "none" THEN {} ELSE {c}) /\ EndInHandOf(s)' = {}
      /\ \A t \in Sessions \ {s} : /\ Waiting(t) = {} /\ Waiting(t)' = {}
                                   /\ EndInHandOf(t) = {} /\ EndInHandOf(t)' = {}
  BY <1>3, <1>4, <1>6 DEF Waiting, EndInHandOf
<1>8. \A t \in Sessions \ {s} : log'[t] = log[t] /\ wrong'[t] = wrong[t] /\ status'[t] = status[t]
  BY <1>2, <1>3, <1>4, <1>5 DEF GoesWrong
<1>9. /\ Counts(rows[s], log[s], calls[s], wrong[s], Waiting(s))
      /\ Story(rows[s], wrong[s], status[s], EndInHandOf(s))
  BY <1>3 DEF CountInv, StoryInv
<1>10. c.set # "none" => status[s] \notin Ended /\ EndInHandOf(s) # {}
  <2>1. c.set # "none" => EndInHandOf(s) # {}
    BY <1>7
  <2> QED BY <1>3, <2>1, EndingGoesOn
<1>11. CASE c.at = "status" /\ wrong' = wrong
            /\ status' = [status EXCEPT ![s] = IF status[s] = "active" THEN c.set ELSE status[s]]
  <2>1. status[s] = "active" /\ c.set \in Ended
    BY <1>2, <1>3, <1>10, <1>11
  <2>2. status'[s] = c.set
    BY <1>2, <1>3, <1>11, <2>1
  <2>3. Story(rows[s], wrong'[s], status'[s], {})
    <3>1. Story(rows[s], wrong[s], c.set, {})
      BY <1>9, <1>10, <2>1, StoryOtherwise
    <3> QED BY <1>11, <2>2, <3>1
  <2>4. Counts(rows[s], log'[s], calls[s], wrong'[s], {})
    BY <1>4, <1>7, <1>9, <1>11
  <2> QED BY <1>3, <1>4, <1>7, <1>8, <2>3, <2>4, OneKeepsChecks
<1>12. CASE c.at = "status" /\ GoesWrong(s, {"end"}) /\ status' = status
  <2>1. wrong'[s] = wrong[s] \cup {"end"}
    BY <1>2, <1>3, <1>12 DEF GoesWrong
  <2>2. Story(rows[s], wrong'[s], status'[s], {})
    <3>1. Story(rows[s], wrong[s] \cup {"end"}, status[s], {})
      BY <1>3, <1>9, <1>10, <1>12, StoryOtherwise
    <3> QED BY <1>12, <2>1, <3>1
  <2>3. Counts(rows[s], log'[s], calls[s], wrong'[s], {})
    BY <1>4, <1>7, <1>9, <1>12, <2>1 DEF Counts
  <2> QED BY <1>3, <1>4, <1>7, <1>8, <2>2, <2>3, OneKeepsChecks
<1>13. CASE /\ GoesWrong(s, (IF c.at = "line" THEN {"line"} ELSE {}) \cup
                            (IF c.set = "none" THEN {} ELSE {"end"}))
            /\ status' = status
  <2> DEFINE lost == IF c.at = "line" THEN {"line"} ELSE {}
             left == IF c.set = "none" THEN {} ELSE {"end"}
             w == wrong[s] \cup left
  <2>1. wrong'[s] = wrong[s] \cup (lost \cup left)
    <3> HIDE DEF lost, left
    <3>1. GoesWrong(s, lost \cup left)
      BY <1>13 DEF lost, left
    <3> QED BY <1>2, <1>3, <3>1 DEF GoesWrong
  <2>2. Story(rows[s], w, status[s], {})
    <3>1. CASE c.set = "none"
      <4>1. w = wrong[s] /\ EndInHandOf(s) = {}
        BY <1>7, <3>1
      <4> QED BY <1>9, <4>1
    <3>2. CASE c.set # "none"
      <4>1. w = wrong[s] \cup {"end"}
        BY <3>2
      <4> HIDE DEF w
      <4> QED BY <1>9, <1>10, <3>2, <4>1, StoryOtherwise
    <3> QED BY <3>1, <3>2
  <2>3. Story(rows[s], wrong'[s], status'[s], {})
    <3>1. wrong'[s] = w \/ wrong'[s] = w \cup {"line"}
      BY <2>1
    <3> HIDE DEF w
    <3>2. Story(rows[s], w \cup {"line"}, status[s], {})
      BY <2>2, StoryOtherwise
    <3> QED BY <1>13, <2>2, <3>1, <3>2
  <2>4. Counts(rows[s], log'[s], calls[s], wrong'[s], {})
    <3>1. CASE c.at = "line"
      <4>1. Waiting(s) # {} /\ Waiting(s) = {c}
        BY <1>7, <3>1
      <4>2. Len(log[s]) \in Nat /\ calls[s] \in Nat /\ Len(log[s]) + 1 <= calls[s]
        BY <1>3, <4>1, LineIsDue
      <4>3. "row" \in wrong'[s] => "row" \in wrong[s]
        BY <2>1
      <4> QED BY <1>4, <1>9, <4>1, <4>2, <4>3, CountsGoOn
    <3>2. CASE c.at # "line"
      <4>1. \A x \in {"row", "line"} : x \in wrong'[s] => x \in wrong[s]
        BY <2>1, <3>2
      <4>2. Waiting(s) = {}
        BY <1>7, <3>2
      <4> QED BY <1>4, <1>9, <4>1, <4>2 DEF Counts
    <3> QED BY <3>1, <3>2
  <2> QED BY <1>3, <1>4, <1>7, <1>8, <2>3, <2>4, OneKeepsChecks
<1> QED
  BY <1>5, <1>11, <1>12, <1>13

LEMMA ChecksInvInit == Init => CountInv /\ StoryInv
<1> SUFFICES ASSUME Init PROVE CountInv /\ StoryInv
  OBVIOUS
<1>1. \A s \in Sessions : /\ rows[s] = <<>> /\ log[s] = <<>> /\ calls[s] = 0 /\ wrong[s] = {}
                          /\ status[s] = "active" /\ Waiting(s) = {} /\ EndInHandOf(s) = {}
  BY DEF Init, Nothing, Waiting, EndInHandOf
<1>2. Ends(<<>>) = {}
  BY DEF Ends
<1>3. \A s \in Sessions : Counts(rows[s], log[s], calls[s], wrong[s], Waiting(s))
  <2>1. Counts(<<>>, <<>>, 0, {}, {})
    BY DEF Counts
  <2> QED BY <1>1, <2>1
<1>4. \A s \in Sessions : Story(rows[s], wrong[s], status[s], EndInHandOf(s))
  <2>1. Story(<<>>, {}, "active", {})
    BY <1>2 DEF Story
  <2> QED BY <1>1, <2>1
<1> QED
  BY <1>3, <1>4 DEF CountInv, StoryInv

LEMMA ChecksInvNext ==
    ASSUME TypeInv, LogInv, EndInv, CountInv, StoryInv, [Next]_avars
    PROVE  CountInv' /\ StoryInv'
<1>1. Stored /\ OneInHand
  BY TypeInvParts
<1>2. /\ status \in [Sessions -> {"active"} \cup Ended]
      /\ wrong \in [Sessions -> SUBSET Wrongs]
  BY <1>1 DEF Stored
<1>3. ASSUME NEW s \in Sessions, Resolve(s) \/ DropEvent(s) PROVE CountInv' /\ StoryInv'
  <2>1. UNCHANGED <<rows, calls, log, wrong, status, hand>>
    BY <1>3 DEF Resolve, DropEvent
  <2> QED BY <2>1, SameKeepsChecks
<1>4. ASSUME NEW s \in Sessions, RecordEvent(s) PROVE CountInv' /\ StoryInv'
  <2> DEFINE late == IF status[s] = "active" THEN {} ELSE {"late"}
  <2>1. Insert(s, "event", "none", late) /\ status' = status /\ log' = log
    BY <1>4 DEF RecordEvent
  <2>2. late \in SUBSET {"late"} /\ (late = {"late"} <=> status[s] \in Ended)
    BY <1>2
  <2>3. "event" \in Kinds /\ "none" \in Ended \cup {"none"}
    BY DEF Kinds
  <2> HIDE DEF late
  <2> QED BY <2>1, <2>2, <2>3, InsertKeepsChecks
<1>5. ASSUME NEW s \in Sessions, RecordRender(s) PROVE CountInv' /\ StoryInv'
  <2>1. Insert(s, "render", "none", {}) /\ status' = status /\ log' = log /\ status[s] \notin Ended
    BY <1>5 DEF RecordRender
  <2>2. "render" \in Kinds /\ "none" \in Ended \cup {"none"} /\ {} \in SUBSET {"late"} /\ {} # {"late"}
    BY DEF Kinds
  <2> QED BY <2>1, <2>2, InsertKeepsChecks
<1>6. ASSUME NEW s \in Sessions, NEW outcome \in Ended, EndSession(s, outcome)
      PROVE  CountInv' /\ StoryInv'
  <2>1. /\ Insert(s, "session_end", outcome, {}) /\ status' = status /\ log' = log
        /\ status[s] \notin Ended
    BY <1>6 DEF EndSession
  <2>2. /\ "session_end" \in Kinds /\ outcome \in Ended \cup {"none"} /\ outcome # "none"
        /\ {} \in SUBSET {"late"} /\ {} # {"late"}
    BY DEF Kinds
  <2> QED BY <2>1, <2>2, InsertKeepsChecks
<1>7. ASSUME NEW s \in Sessions, NEW outcome \in Ended, EndUnlogged(s, outcome)
      PROVE  CountInv' /\ StoryInv'
  <2>1. /\ status[s] \notin Ended /\ hand = {} /\ hand' = {}
        /\ status' = [status EXCEPT ![s] = outcome] /\ GoesWrong(s, {"endless"})
        /\ rows' = rows /\ calls' = calls /\ log' = log
    BY <1>7 DEF EndUnlogged, Free
  <2>2. /\ status'[s] = outcome /\ wrong'[s] = wrong[s] \cup {"endless"}
        /\ \A t \in Sessions \ {s} : status'[t] = status[t] /\ wrong'[t] = wrong[t]
    BY <1>2, <2>1 DEF GoesWrong
  <2>3. \A t \in Sessions : /\ Waiting(t) = {} /\ Waiting(t)' = {}
                            /\ EndInHandOf(t) = {} /\ EndInHandOf(t)' = {}
    BY <2>1 DEF Waiting, EndInHandOf
  <2>4. Counts(rows[s], log[s], calls[s], wrong[s], {}) /\ Story(rows[s], wrong[s], status[s], {})
    BY <2>3 DEF CountInv, StoryInv
  <2>5. Counts(rows[s], log'[s], calls[s], wrong'[s], {})
    BY <2>1, <2>2, <2>4 DEF Counts
  <2>6. Story(rows[s], wrong'[s], status'[s], {})
    <3>1. Story(rows[s], wrong[s] \cup {"endless"}, outcome, {})
      BY <2>1, <2>4, StoryOtherwise
    <3> QED BY <2>2, <3>1
  <2> QED BY <2>1, <2>2, <2>3, <2>5, <2>6, OneKeepsChecks
<1>8. ASSUME NEW c \in hand, AppendLine(c) PROVE CountInv' /\ StoryInv'
  BY <1>8, AppendKeepsChecks
<1>9. ASSUME NEW c \in hand, SetStatus(c) \/ Crash(c) PROVE CountInv' /\ StoryInv'
  BY <1>9, SettleKeepsChecks
<1>10. ASSUME CloseStudy \/ BuildArchive \/ UNCHANGED avars PROVE CountInv' /\ StoryInv'
  <2>1. UNCHANGED <<rows, calls, log, wrong, status, hand>>
    BY <1>10 DEF CloseStudy, BuildArchive, Snapshot, WriteTables, HashLog, CountLines, ArchiveLog,
                 OnlyExport, avars
  <2> QED BY <2>1, SameKeepsChecks
<1> QED
  BY <1>3, <1>4, <1>5, <1>6, <1>7, <1>8, <1>9, <1>10 DEF Next, Writes

\* A write marks its session as moved, or changes nothing the checks compare.
SessionStays(s) ==
    /\ rows'[s] = rows[s] /\ status'[s] = status[s] /\ log'[s] = log[s]
    /\ (\A c \in hand : c.s # s) => \A c \in hand' : c.s # s

WritesAreMarked ==
    /\ export'.stage = export.stage /\ export'.copy = export.copy /\ export'.lines = export.lines
    /\ export.moved \subseteq export'.moved
    /\ \A s \in Sessions : export.stage = 0 \/ s \in export'.moved \/ SessionStays(s)

LEMMA WritesMark ==
    ASSUME TypeInv, Writes
    PROVE  WritesAreMarked
<1>1. Stored /\ OneInHand
  BY TypeInvParts
<1>2. /\ status \in [Sessions -> {"active"} \cup Ended] /\ rows \in [Sessions -> Seq(Record)]
      /\ log \in [Sessions -> Seq(Record)] /\ export \in Exports /\ hand \subseteq Call
  BY <1>1 DEF Stored, OneInHand
<1>3. ASSUME UNCHANGED <<export, rows, status, log>>, hand' \subseteq hand
      PROVE  WritesAreMarked
  BY <1>3 DEF WritesAreMarked, SessionStays
<1>4. ASSUME NEW s \in Sessions, Moved(s), \A t \in Sessions \ {s} : SessionStays(t)
      PROVE  WritesAreMarked
  BY <1>2, <1>4, MovedDoes DEF WritesAreMarked
<1>5. ASSUME NEW s \in Sessions, NEW kind \in Kinds, NEW set \in Ended \cup {"none"},
             NEW late \in SUBSET {"late"}, Insert(s, kind, set, late), log' = log, status' = status
      PROVE  WritesAreMarked
  <2>1. Moved(s)
    BY <1>5 DEF Insert
  <2>2. PICK seq : /\ hand' = {InCall(s, kind, seq, set)}
                   /\ \/ rows' = [rows EXCEPT ![s] = Append(rows[s], Line(s, kind, seq))]
                      \/ rows' = rows
    BY <1>5, InsertDoes
  <2>3. InCall(s, kind, seq, set).s = s
    BY DEF InCall
  <2>4. \A t \in Sessions \ {s} : SessionStays(t)
    BY <1>2, <1>5, <2>2, <2>3 DEF SessionStays
  <2> QED BY <1>4, <2>1, <2>4
<1>6. ASSUME NEW s \in Sessions, Resolve(s) \/ DropEvent(s) PROVE WritesAreMarked
  BY <1>3, <1>6 DEF Resolve, DropEvent
<1>7. ASSUME NEW s \in Sessions, RecordEvent(s) PROVE WritesAreMarked
  <2>1. PICK late \in SUBSET {"late"} : Insert(s, "event", "none", late)
    BY <1>7 DEF RecordEvent
  <2> QED BY <1>5, <1>7, <2>1 DEF RecordEvent, Kinds
<1>8. ASSUME NEW s \in Sessions, RecordRender(s) PROVE WritesAreMarked
  BY <1>5, <1>8 DEF RecordRender, Kinds
<1>9. ASSUME NEW s \in Sessions, NEW outcome \in Ended, EndSession(s, outcome)
      PROVE  WritesAreMarked
  BY <1>5, <1>9 DEF EndSession, Kinds
<1>10. ASSUME NEW s \in Sessions, NEW outcome \in Ended, EndUnlogged(s, outcome)
       PROVE  WritesAreMarked
  <2>1. Moved(s)
    BY <1>10 DEF EndUnlogged
  <2>2. \A t \in Sessions \ {s} : SessionStays(t)
    BY <1>2, <1>10 DEF EndUnlogged, SessionStays
  <2> QED BY <1>4, <2>1, <2>2
<1>11. ASSUME NEW c \in hand, AppendLine(c) PROVE WritesAreMarked
  <2>1. c.s \in Sessions /\ Moved(c.s)
    BY <1>2, <1>11 DEF AppendLine, Call
  <2> DEFINE d == [c EXCEPT !.at = "status"]
  <2>2. d.s = c.s /\ hand' \subseteq (hand \cup {d})
    BY <1>2, <1>11 DEF AppendLine, Call
  <2> HIDE DEF d
  <2>3. \A t \in Sessions \ {c.s} : log'[t] = log[t]
    BY <1>2, <1>11, <2>1 DEF AppendLine
  <2>4. \A t \in Sessions \ {c.s} : SessionStays(t)
    BY <1>11, <2>2, <2>3 DEF AppendLine, SessionStays
  <2> QED BY <1>4, <2>1, <2>4
<1>12. ASSUME NEW c \in hand, SetStatus(c) PROVE WritesAreMarked
  <2>1. c.s \in Sessions /\ Moved(c.s)
    BY <1>2, <1>12 DEF SetStatus, Call
  <2>2. \A t \in Sessions \ {c.s} : SessionStays(t)
    BY <1>2, <1>12, <2>1 DEF SetStatus, SessionStays
  <2> QED BY <1>4, <2>1, <2>2
<1>13. ASSUME NEW c \in hand, Crash(c) PROVE WritesAreMarked
  BY <1>3, <1>13 DEF Crash
<1>14. ASSUME CloseStudy PROVE WritesAreMarked
  BY <1>3, <1>14 DEF CloseStudy
<1> QED
  BY <1>6, <1>7, <1>8, <1>9, <1>10, <1>11, <1>12, <1>13, <1>14 DEF Writes

LEMMA StillInvInit == Init => StillInv
BY DEF Init, StillInv

\* An export's step that goes from one stage to the next, or stays in its own,
\* and has counted what it has to.
LEMMA StageKeepsStill ==
    ASSUME StillInv, UNCHANGED <<status, rows, log, hand>>, export.stage \in 1..3,
           export'.stage \in 1..4, export'.copy = export.copy, export'.moved = export.moved,
           \A s \in Sessions : export'.lines[s] \in {export.lines[s], Len(log[s])},
           export'.stage > 2 => \A s \in Sessions : export'.lines[s] # -1
    PROVE  StillInv'
BY DEF StillInv

LEMMA StillInvNext ==
    ASSUME TypeInv, StillInv, [Next]_avars
    PROVE  StillInv'
<1>1. export \in Exports /\ log \in [Sessions -> Seq(Record)]
  BY DEF TypeInv, TypeOK
<1>2. export.stage \in 0..4 /\ export.lines \in [Sessions -> Nat \cup {-1}]
      /\ \A s \in Sessions : Len(log[s]) \in Nat
  BY <1>1 DEF Exports
<1>3. CASE Writes
  <2>1. WritesAreMarked
    BY <1>3, WritesMark
  <2>2. ASSUME export.stage > 0, NEW s \in Sessions \ export'.moved
        PROVE  /\ export'.copy.rows[s] = rows'[s] /\ export'.copy.status[s] = status'[s]
               /\ \A c \in hand' : c.s # s
               /\ export'.lines[s] # -1 => export'.lines[s] = Len(log'[s])
    <3>1. s \notin export.moved /\ SessionStays(s)
      BY <1>2, <2>1, <2>2 DEF WritesAreMarked
    <3> QED BY <2>1, <2>2, <3>1 DEF StillInv, SessionStays, WritesAreMarked
  <2> QED BY <2>1, <2>2 DEF StillInv, WritesAreMarked
<1>4. ASSUME BuildArchive
      PROVE  UNCHANGED <<status, rows, log, hand>>
  BY <1>4 DEF BuildArchive, Snapshot, WriteTables, HashLog, CountLines, ArchiveLog, OnlyExport
<1>5. CASE Snapshot
  <2> DEFINE e == [export EXCEPT !.copy = [status |-> status, rows |-> rows],
                                 !.moved = {c.s : c \in hand}]
  <2>1. export.stage = 0 /\ export' = After(e) /\ e.stage = 0
    BY <1>1, <1>5, StageOf DEF Snapshot, Exports
  <2>2. /\ e.copy = [status |-> status, rows |-> rows] /\ e.moved = {c.s : c \in hand}
        /\ e.lines = export.lines
    BY <1>1 DEF Exports
  <2>3. /\ After(e).stage = e.stage + 1 /\ After(e).copy = e.copy /\ After(e).moved = e.moved
        /\ After(e).lines = e.lines
    BY <1>1 DEF After, Exports
  <2> HIDE DEF e
  <2>4. /\ export'.stage = 1 /\ export'.copy.rows = rows /\ export'.copy.status = status
        /\ export'.moved = {c.s : c \in hand} /\ export'.lines = export.lines
    BY <2>1, <2>2, <2>3
  <2>5. \A s \in Sessions : export.lines[s] = -1
    BY <2>1 DEF StillInv
  <2>6. UNCHANGED <<status, rows, log, hand>>
    BY <1>4, <1>5 DEF BuildArchive
  <2> QED BY <2>4, <2>5, <2>6 DEF StillInv
<1>6. CASE WriteTables
  <2>1. PICK bad : export' = After([export EXCEPT !.unread = bad])
    BY <1>6 DEF WriteTables
  <2>2. export.stage = 1
    BY <1>1, <1>6, StageOf DEF WriteTables
  <2>3. /\ export'.stage = 2 /\ export'.copy = export.copy /\ export'.moved = export.moved
        /\ export'.lines = export.lines
    BY <1>1, <2>1, <2>2 DEF After, Exports
  <2> QED BY <1>4, <1>6, <2>2, <2>3, StageKeepsStill DEF BuildArchive
<1>7. ASSUME NEW s \in Sessions, CountLines(s) PROVE StillInv'
  <2> DEFINE e == [export EXCEPT !.lines[s] = Len(log[s])]
  <2>1. /\ export.stage = 2 /\ export' = (IF s = NSessions THEN After(e) ELSE e)
        /\ \A t \in Sessions : t < s => export.lines[t] # -1
    BY <1>1, <1>7, StageOf DEF CountLines
  <2>2. e.stage = 2 /\ e.copy = export.copy /\ e.moved = export.moved
        /\ e.lines = [export.lines EXCEPT ![s] = Len(log[s])]
    BY <1>1, <2>1 DEF Exports
  <2>3. /\ After(e).stage = e.stage + 1 /\ After(e).copy = e.copy /\ After(e).moved = e.moved
        /\ After(e).lines = e.lines
    BY <1>1 DEF After, Exports
  <2> HIDE DEF e
  <2>4. /\ export'.stage = (IF s = NSessions THEN 3 ELSE 2)
        /\ export'.copy = export.copy /\ export'.moved = export.moved
        /\ export'.lines = [export.lines EXCEPT ![s] = Len(log[s])]
    BY <2>1, <2>2, <2>3
  <2>5. \A t \in Sessions : export'.lines[t] = IF t = s THEN Len(log[s]) ELSE export.lines[t]
    BY <1>2, <2>4
  <2>6. s = NSessions => \A t \in Sessions : t = s \/ t < s
    OBVIOUS
  <2>7. export'.stage > 2 => \A t \in Sessions : export'.lines[t] # -1
    BY <1>2, <2>1, <2>4, <2>5, <2>6
  <2>8. export.stage \in 1..3 /\ export'.stage \in 1..4
    BY <2>1, <2>4
  <2> QED BY <1>4, <1>7, <2>4, <2>5, <2>7, <2>8, StageKeepsStill DEF BuildArchive
<1>8. ASSUME NEW s \in Sessions, ArchiveLog(s) PROVE StillInv'
  <2>1. /\ export.stage = 3
        /\ export'.stage = 3 /\ export'.copy = export.copy /\ export'.moved = export.moved
        /\ export'.lines = export.lines
    BY <1>1, <1>8, StageOf DEF ArchiveLog, Exports
  <2>2. \A t \in Sessions : export.lines[t] # -1
    BY <2>1 DEF StillInv
  <2> QED BY <1>4, <1>8, <2>1, <2>2, StageKeepsStill DEF BuildArchive
<1>9. CASE HashLog
  <2> DEFINE s == export.hashing
             e == [export EXCEPT !.sums[s] = log[s], !.hashing = 0, !.done = @ \cup {s}]
  <2>1. export.stage = 3 /\ export' = (IF s = NSessions THEN After(e) ELSE e)
    BY <1>1, <1>9, StageOf DEF HashLog
  <2>2. e.stage = 3 /\ e.copy = export.copy /\ e.moved = export.moved /\ e.lines = export.lines
    BY <1>1, <2>1 DEF Exports
  <2>3. /\ After(e).stage = e.stage + 1 /\ After(e).copy = e.copy /\ After(e).moved = e.moved
        /\ After(e).lines = e.lines
    BY <1>1 DEF After, Exports
  <2> HIDE DEF e, s
  <2>4. /\ export'.stage \in {3, 4} /\ export'.copy = export.copy /\ export'.moved = export.moved
        /\ export'.lines = export.lines
    BY <2>1, <2>2, <2>3
  <2>5. \A t \in Sessions : export.lines[t] # -1
    BY <2>1 DEF StillInv
  <2> QED BY <1>4, <1>9, <2>1, <2>4, <2>5, StageKeepsStill DEF BuildArchive
<1>10. CASE UNCHANGED avars
  BY <1>10 DEF StillInv, avars
<1> QED
  BY <1>3, <1>5, <1>6, <1>7, <1>8, <1>9, <1>10 DEF Next, BuildArchive

THEOREM ChecksInvariant == Spec => [](CountInv /\ StoryInv /\ StillInv)
<1>1. Init => CountInv /\ StoryInv /\ StillInv
  BY ChecksInvInit, StillInvInit
<1>2. TypeInv /\ LogInv /\ EndInv /\ (CountInv /\ StoryInv /\ StillInv) /\ [Next]_avars
        => (CountInv /\ StoryInv /\ StillInv)'
  BY ChecksInvNext, StillInvNext
<1> QED BY <1>1, <1>2, TypeInvariant, LogInvariant, ExportInvariant, PTL DEF Spec

\* More than one is two that differ.
LEMMA MoreThanOne ==
    ASSUME NEW S, IsFiniteSet(S)
    PROVE  Cardinality(S) > 1 <=> \E x, y \in S : x # y
<1>1. Cardinality(S) \in Nat
  BY FS_CardinalityType
<1>2. ASSUME NEW x \in S, NEW y \in S, x # y PROVE Cardinality(S) > 1
  <2>1. IsFiniteSet({x}) /\ Cardinality({x}) = 1
    BY FS_Singleton
  <2>2. Cardinality({x} \cup {y}) = 2
    BY <1>2, <2>1, FS_AddElement
  <2>3. Cardinality({x} \cup {y}) <= Cardinality(S)
    BY FS_Subset
  <2> QED BY <1>1, <2>2, <2>3
<1>3. ASSUME Cardinality(S) > 1 PROVE \E x, y \in S : x # y
  <2>1. S # {}
    BY <1>1, <1>3, FS_EmptySet
  <2>2. PICK x \in S : TRUE
    BY <2>1
  <2>3. S # {x}
    BY <1>1, <1>3, FS_Singleton
  <2> QED BY <2>2, <2>3
<1> QED
  BY <1>2, <1>3

\* The checks of a copy, in terms of its rows' positions.
LEMMA CopyChecks ==
    ASSUME NEW r \in Seq(Record), Positions(r)
    PROVE  /\ EndedTwice(r) <=> Twice(r)
           /\ RowsAfterEnd(r) <=> AfterAnEnd(r)
           /\ ~DuplicateSeq(r)
<1>1. DOMAIN r = 1..Len(r) /\ Len(r) \in Nat
  OBVIOUS
<1>2. IsFiniteSet(Ends(r))
  <2>1. IsFiniteSet(1..Len(r))
    BY <1>1, FS_Interval
  <2>2. Ends(r) \in SUBSET (1..Len(r))
    BY <1>1 DEF Ends
  <2> QED BY <2>1, <2>2, FS_Subset
<1>3. EndedTwice(r) <=> Twice(r)
  BY <1>2, MoreThanOne DEF EndedTwice, Twice
<1>4. RowsAfterEnd(r) <=> AfterAnEnd(r)
  BY DEF RowsAfterEnd, AfterAnEnd, Ends, Positions
<1>5. ~DuplicateSeq(r)
  BY DEF DuplicateSeq, Positions
<1> QED
  BY <1>3, <1>4, <1>5

\* The files of a session that nothing is in hand of
LEMMA RowsAndLines ==
    ASSUME TypeInv, LogInv, EndInv, NEW s \in Sessions, Waiting(s) = {}
    PROVE  /\ calls[s] \in Nat
           /\ "row" \notin wrong[s] => Len(rows[s]) = calls[s]
           /\ "line" \notin wrong[s] => Len(log[s]) = calls[s]
<1>1. Stored
  BY TypeInvParts
<1>2. rows[s] \in Seq(Record) /\ log[s] \in Seq(Record) /\ calls[s] \in Nat
  BY <1>1, CallsAreCounted DEF Stored
<1>3. "row" \notin wrong[s] => CallsOf(rows[s]) = FirstCalls(calls[s])
  BY DEF EndInv, RowOfEachCall
<1>4. "line" \notin wrong[s] => CallsOf(log[s]) = FirstCalls(calls[s])
  BY DEF LogInv, NoLineMissing
<1> QED
  BY <1>2, <1>3, <1>4, CallsOfLength

LEMMA ChecksFind ==
    ASSUME TypeInv, LogInv, EndInv, ExportInv, CountInv, StoryInv, StillInv, Finished,
           NEW s \in Sessions \ export.moved, export.copy.status[s] \in Ended,
           Cardinality(wrong[s]) <= 1
    PROVE  Problem(export, s) <=> (s \in export.unread \/ wrong[s] # {})
<1> DEFINE r == rows[s]
<1>1. Stored
  BY TypeInvParts
<1>2. r \in Seq(Record) /\ log[s] \in Seq(Record) /\ wrong[s] \in SUBSET Wrongs /\ s \in Sessions
  BY <1>1 DEF Stored
<1>3. export.stage = 4
  BY DEF Finished
<1>4. /\ export.copy.rows[s] = r /\ status[s] \in Ended /\ Waiting(s) = {} /\ EndInHandOf(s) = {}
      /\ export.lines[s] = Len(log[s])
  BY <1>3 DEF StillInv, Waiting, EndInHandOf
<1>5. Positions(r)
  BY <1>2, <1>3, <1>4 DEF ExportInv, CopyInv
<1> HIDE DEF r
<1>6. Problem(export, s) <=> \/ Twice(r) \/ AfterAnEnd(r) \/ Ends(r) = {}
                             \/ Len(log[s]) # Len(r) \/ s \in export.unread
  <2>1. EndedTwice(r) <=> Twice(r)
    BY <1>2, <1>5, CopyChecks
  <2>2. RowsAfterEnd(r) <=> AfterAnEnd(r)
    BY <1>2, <1>5, CopyChecks
  <2>3. ~DuplicateSeq(r)
    BY <1>2, <1>5, CopyChecks
  <2> QED BY <1>4, <2>1, <2>2, <2>3 DEF Problem, EndedWithoutEvent, LogMismatch
<1>7. /\ calls[s] \in Nat
      /\ "row" \notin wrong[s] => Len(r) = calls[s]
      /\ "line" \notin wrong[s] => Len(log[s]) = calls[s]
  BY <1>2, <1>4, RowsAndLines DEF r
<1>8. Len(r) \in Nat /\ Len(log[s]) \in Nat
  BY <1>2
<1>9. /\ "row" \in wrong[s] => Len(r) < calls[s]
      /\ "line" \in wrong[s] => Len(log[s]) < calls[s]
  <2>1. Counts(r, log[s], calls[s], wrong[s], {})
    BY <1>2, <1>4 DEF CountInv, r
  <2> QED BY <1>7, <1>8, <2>1 DEF Counts
<1>10. Story(r, wrong[s], status[s], {})
  BY <1>2, <1>4 DEF StoryInv, r
<1>11. \A x, y \in wrong[s] : x = y
  <2>1. IsFiniteSet(Wrongs)
    <3>1. Wrongs = (((({} \cup {"row"}) \cup {"line"}) \cup {"end"}) \cup {"endless"}) \cup {"late"}
      BY DEF Wrongs
    <3>2. IsFiniteSet(({} \cup {"row"}) \cup {"line"})
      BY FS_EmptySet, FS_AddElement
    <3>3. IsFiniteSet((({} \cup {"row"}) \cup {"line"}) \cup {"end"})
      BY <3>2, FS_AddElement
    <3>4. IsFiniteSet(((({} \cup {"row"}) \cup {"line"}) \cup {"end"}) \cup {"endless"})
      BY <3>3, FS_AddElement
    <3> QED BY <3>1, <3>4, FS_AddElement
  <2>2. IsFiniteSet(wrong[s])
    BY <1>2, <2>1, FS_Subset
  <2>3. ~(Cardinality(wrong[s]) > 1)
    BY <2>2, FS_CardinalityType
  <2> QED BY <2>2, <2>3, MoreThanOne
<1>12. CASE wrong[s] = {}
  <2>1. Len(log[s]) = Len(r)
    BY <1>7, <1>12
  <2>2. Ends(r) # {} /\ \A i \in Ends(r) : i = Len(r)
    BY <1>4, <1>10, <1>12 DEF Story
  <2>3. ~Twice(r)
    BY <2>2 DEF Twice
  <2>4. ~AfterAnEnd(r)
    <3>1. \A j \in DOMAIN r : j \in Int /\ j <= Len(r)
      BY <1>2
    <3> QED BY <1>8, <2>2, <3>1 DEF AfterAnEnd
  <2> QED BY <1>6, <1>12, <2>1, <2>2, <2>3, <2>4
<1>13. CASE "row" \in wrong[s]
  <2>1. "line" \notin wrong[s]
    BY <1>11, <1>13
  <2>2. Len(log[s]) # Len(r)
    BY <1>7, <1>8, <1>9, <1>13, <2>1
  <2> QED BY <1>6, <1>13, <2>2
<1>14. CASE "line" \in wrong[s]
  <2>1. "row" \notin wrong[s]
    BY <1>11, <1>14
  <2>2. Len(log[s]) # Len(r)
    BY <1>7, <1>8, <1>9, <1>14, <2>1
  <2> QED BY <1>6, <1>14, <2>2
<1>15. CASE "end" \in wrong[s]
  <2>1. "row" \notin wrong[s] /\ "endless" \notin wrong[s]
    BY <1>11, <1>15
  <2>2. Twice(r)
    BY <1>4, <1>10, <1>15, <2>1 DEF Story
  <2> QED BY <1>6, <1>15, <2>2
<1>16. CASE "endless" \in wrong[s]
  <2>1. "row" \notin wrong[s] /\ "end" \notin wrong[s]
    BY <1>11, <1>16
  <2>2. Ends(r) = {}
    BY <1>10, <1>16, <2>1 DEF Story
  <2> QED BY <1>6, <1>16, <2>2
<1>17. CASE "late" \in wrong[s]
  <2>1. "row" \notin wrong[s] /\ "endless" \notin wrong[s]
    BY <1>11, <1>17
  <2>2. AfterAnEnd(r)
    BY <1>10, <1>17, <2>1 DEF Story
  <2> QED BY <1>6, <1>17, <2>2
<1> QED
  BY <1>2, <1>12, <1>13, <1>14, <1>15, <1>16, <1>17 DEF Wrongs

\* The checks list a problem of an ended session that stayed as it was exactly
\* when it could not be read or something had gone wrong in it: run_checks.
THEOREM ChecksAreRight == Spec => []ChecksFindWhatWentWrong
<1>1. TypeInv /\ LogInv /\ (EndInv /\ ExportInv) /\ (CountInv /\ StoryInv /\ StillInv)
        => ChecksFindWhatWentWrong
  BY ChecksFind DEF ChecksFindWhatWentWrong
<1> QED
  BY <1>1, TypeInvariant, LogInvariant, ExportInvariant, ChecksInvariant, PTL
=============================================================================
