---------------------------- MODULE StudyArchive ----------------------------
(***************************************************************************)
(* The two records a study keeps of a session, its rows in the database    *)
(* and its JSONL log (app/studies/store.py), and what an export makes of   *)
(* them while they are written to (app/studies/export.py).                 *)
(*                                                                         *)
(* StudySession has the handlers and their steps; here a handler is only   *)
(* the store call it ends in, cut where the lock, the process or the disk  *)
(* can: the insert, the line, and the status an end sets.  Faults says     *)
(* what can fail: "read" (the session's row cannot be read under the       *)
(* lock), "row" (the insert raises), "line" (the append raises), "status"  *)
(* (the update of an end raises), "crash" (the process is killed between   *)
(* two of those), "export" (the exporter cannot read a session).           *)
(***************************************************************************)
EXTENDS Integers, Sequences, FiniteSets, SequencesExt

CONSTANTS
    NSessions,   \* how many sessions there are
    Faults,      \* what can fail, a subset of AllFaults
    MaxCalls,    \* bound: store calls per session
    MaxFaults    \* bound: kinds of failure per session

AllFaults == {"read", "row", "line", "status", "crash", "export"}

ASSUME ArchiveConstants ==
    NSessions \in Nat /\ Faults \subseteq AllFaults /\ MaxCalls \in Nat /\ MaxFaults \in Nat

Sessions == 1..NSessions

VARIABLES
    status,    \* study_sessions.status
    rows,      \* study_events and study_renders, in the order of insertion
    log,       \* the lines of the session's file
    hand,      \* the store call that holds the write lock and is not done
    resolved,  \* study_event found the session active and has yet to record
    stopped,   \* the study has been closed: nothing writes to it again
    calls,     \* history: how many store calls had a line to append
    wrong,     \* history: what has gone wrong in the session
    export     \* the archive being made

avars == <<status, rows, log, hand, resolved, stopped, calls, wrong, export>>

Kinds == {"event", "render", "session_end"}
Ended == {"completed", "abandoned"}
NoSeq == 0    \* a line whose row was never given a number: null

\* call: which of the session's calls it is of; not stored, the order they ran in.
Record == [seq: Nat, kind: Kinds, call: Nat]
\* set: the status an end has still to write, or "none".
Call == [s: Sessions, line: Record, set: Ended \cup {"none"}, at: {"line", "status"}]
Wrongs == {"row", "line", "end", "endless", "late"}

Copy == [status: [Sessions -> {"active"} \cup Ended], rows: [Sessions -> Seq(Record)]]

(***************************************************************************)
(*   stage    how many of Order's stages are done                          *)
(*   copy     study.db in the archive                                      *)
(*   unread   the sessions listed as export_failed                         *)
(*   lines    the lines run_checks counted, for the sessions it has done   *)
(*   logs     logs/*.jsonl in the archive                                  *)
(*   sums     what the manifest's checksums were computed from             *)
(*   hashing  the log that is in the archive and has yet to be hashed, or 0*)
(*   moved    history: sessions written to since the snapshot              *)
(***************************************************************************)
Exports ==
    [stage: 0..4, copy: Copy, unread: SUBSET Sessions,
     lines: [Sessions -> Nat \cup {-1}],
     logs: [Sessions -> Seq(Record)], sums: [Sessions -> Seq(Record)],
     done: SUBSET Sessions, hashing: Sessions \cup {0}, moved: SUBSET Sessions]

TypeOK ==
    /\ status \in [Sessions -> {"active"} \cup Ended]
    /\ rows \in [Sessions -> Seq(Record)]
    /\ log \in [Sessions -> Seq(Record)]
    /\ \A c \in hand : c \in Call
    /\ Cardinality(hand) <= 1
    /\ resolved \subseteq Sessions
    /\ stopped \in BOOLEAN
    /\ calls \in [Sessions -> 0..MaxCalls]
    /\ wrong \in [Sessions -> SUBSET Wrongs]
    /\ export \in Exports

Nothing == [s \in Sessions |-> <<>>]

Init ==
    /\ status = [s \in Sessions |-> "active"]
    /\ rows = Nothing /\ log = Nothing
    /\ hand = {} /\ resolved = {} /\ stopped = FALSE
    /\ calls = [s \in Sessions |-> 0]
    /\ wrong = [s \in Sessions |-> {}]
    /\ export = [stage |-> 0, copy |-> [status |-> status, rows |-> Nothing],
                 unread |-> {}, lines |-> [s \in Sessions |-> -1],
                 logs |-> Nothing, sums |-> Nothing,
                 done |-> {}, hashing |-> 0, moved |-> {}]

-----------------------------------------------------------------------------
(* The store's writes *)

FreeAlways == Cardinality(hand) < 2    \* mutant: the line is appended after the lock
Free == hand = {}                      \* _write_lock

\* _next_seq: one counter over both tables.
NextSeq(s) == 1 + Max({0} \cup {rows[s][i].seq : i \in DOMAIN rows[s]})

MayFail(fault, s) == fault \in Faults /\ Cardinality(wrong[s]) < MaxFaults
GoesWrong(s, what) == wrong' = [wrong EXCEPT ![s] = @ \cup what]

\* A session written to while an archive is being made.
Moved(s) ==
    export' = IF export.stage = 0 THEN export ELSE [export EXCEPT !.moved = @ \cup {s}]

\* mutant: no line without a row
InHandIfStored(s, kind, seq, set) ==
    /\ calls' = [calls EXCEPT ![s] = @ + 1]
    /\ hand' = IF seq = NoSeq THEN hand
               ELSE hand \cup {[s |-> s, set |-> set, at |-> "line",
                                line |-> [seq |-> seq, kind |-> kind, call |-> calls[s] + 1]]}
\* The line is written whether or not the row was.
InHand(s, kind, seq, set) ==
    /\ calls' = [calls EXCEPT ![s] = @ + 1]
    /\ hand' = hand \cup {[s |-> s, set |-> set, at |-> "line",
                           line |-> [seq |-> seq, kind |-> kind, call |-> calls[s] + 1]]}

\* The locked part of record_event and _record_render up to the commit.  A call
\* whose insert raises may have its number by then, or none.
Insert(s, kind, set, late) ==
    /\ Free /\ ~stopped /\ calls[s] < MaxCalls
    /\ Moved(s)
    /\ \/ /\ rows' = [rows EXCEPT ![s] =
               Append(@, [seq |-> NextSeq(s), kind |-> kind, call |-> calls[s] + 1])]
          /\ InHand(s, kind, NextSeq(s), set)
          /\ GoesWrong(s, late)
       \/ /\ MayFail("row", s)
          /\ \E seq \in {NoSeq, NextSeq(s)} : InHand(s, kind, seq, set)
          /\ GoesWrong(s, {"row"})
          /\ UNCHANGED rows

\* study_event finds the session active, without the lock.
Resolve(s) ==
    /\ status[s] = "active" /\ ~stopped /\ calls[s] < MaxCalls
    /\ resolved' = resolved \cup {s}
    /\ UNCHANGED <<status, rows, log, hand, stopped, calls, wrong, export>>

\* record_event asks for nothing but the session's existence: an event may
\* follow the end.
RecordEvent(s) ==
    /\ s \in resolved
    /\ resolved' = resolved \ {s}
    /\ Insert(s, "event", "none", IF status[s] = "active" THEN {} ELSE {"late"})
    /\ UNCHANGED <<status, log, stopped>>

\* The session cannot be read: neither row nor line, and the caller carries on.
DropEvent(s) ==
    /\ s \in resolved /\ Free /\ ~stopped /\ "read" \in Faults
    /\ resolved' = resolved \ {s}
    /\ UNCHANGED <<status, rows, log, hand, stopped, calls, wrong, export>>

\* record_render with only_if_active
RecordRender(s) ==
    /\ status[s] = "active"
    /\ Insert(s, "render", "none", {})
    /\ UNCHANGED <<status, log, resolved, stopped>>

\* end_session: checked, logged and set under one lock.
EndSession(s, outcome) ==
    /\ status[s] = "active"
    /\ Insert(s, "session_end", outcome, {})
    /\ UNCHANGED <<status, log, resolved, stopped>>

\* Its record_event could not read the session, which its caller does not ask.
EndUnlogged(s, outcome) ==
    /\ status[s] = "active" /\ Free /\ ~stopped /\ MayFail("read", s)
    /\ status' = [status EXCEPT ![s] = outcome]
    /\ GoesWrong(s, {"endless"})
    /\ Moved(s)
    /\ UNCHANGED <<rows, log, hand, resolved, stopped, calls>>

\* _append_jsonl; then an end goes on, and any other call lets the lock go.
AppendLine(c) ==
    /\ c.at = "line"
    /\ \/ log' = [log EXCEPT ![c.s] = Append(@, c.line)] /\ UNCHANGED wrong
       \/ MayFail("line", c.s) /\ GoesWrong(c.s, {"line"}) /\ UNCHANGED log
    /\ hand' = (hand \ {c}) \cup (IF c.set = "none" THEN {} ELSE {[c EXCEPT !.at = "status"]})
    /\ Moved(c.s)
    /\ UNCHANGED <<status, rows, resolved, stopped, calls>>

\* UPDATE ... WHERE status = 'active'
SetStatus(c) ==
    /\ c.at = "status"
    /\ \/ status' = [status EXCEPT ![c.s] = IF @ = "active" THEN c.set ELSE @] /\ UNCHANGED wrong
       \/ MayFail("status", c.s) /\ GoesWrong(c.s, {"end"}) /\ UNCHANGED status
    /\ hand' = hand \ {c}
    /\ Moved(c.s)
    /\ UNCHANGED <<rows, log, resolved, stopped, calls>>

\* The process is killed in the middle of a call, and started again.
Crash(c) ==
    /\ MayFail("crash", c.s)
    /\ GoesWrong(c.s, (IF c.at = "line" THEN {"line"} ELSE {}) \cup
                      (IF c.set = "none" THEN {} ELSE {"end"}))
    /\ hand' = {} /\ resolved' = {}
    /\ UNCHANGED <<status, rows, log, stopped, calls, export>>

\* The server is stopped and started with the study closed.
CloseStudy ==
    /\ ~stopped /\ Free
    /\ stopped' = TRUE /\ resolved' = {}
    /\ UNCHANGED <<status, rows, log, hand, calls, wrong, export>>

Writes ==
    \/ \E s \in Sessions :
         \/ Resolve(s) \/ RecordEvent(s) \/ DropEvent(s) \/ RecordRender(s)
         \/ \E outcome \in Ended : EndSession(s, outcome) \/ EndUnlogged(s, outcome)
    \/ \E c \in hand : AppendLine(c) \/ SetStatus(c) \/ Crash(c)
    \/ CloseStudy

-----------------------------------------------------------------------------
(* build_archive *)

LogsFirst == <<"logs", "snapshot", "tables", "checks">>    \* mutant
Order == <<"snapshot", "tables", "checks", "logs">>

At(stage) == export.stage < 4 /\ Order[export.stage + 1] = stage
After(e) == [e EXCEPT !.stage = @ + 1, !.done = {}]
OnlyExport == UNCHANGED <<status, rows, log, hand, resolved, stopped, calls, wrong>>

\* snapshot_database: one consistent copy.
Snapshot ==
    /\ At("snapshot")
    /\ export' = After([export EXCEPT !.copy = [status |-> status, rows |-> rows],
                                      !.moved = {c.s : c \in hand}])
    /\ OnlyExport

\* completed_sessions and incomplete_sessions
InLong(e) == {s \in Sessions : e.copy.status[s] = "completed"}
InIncomplete(e) ==
    {s \in Sessions : e.copy.status[s] \in {"abandoned"} \cup (IF stopped THEN {"active"} ELSE {})}

\* iter_long_rows: a session that cannot be read is listed, the others go on.
WriteTables ==
    /\ At("tables")
    /\ \E bad \in SUBSET (InLong(export) \cup InIncomplete(export)) :
         /\ bad # {} => "export" \in Faults
         /\ export' = After([export EXCEPT !.unread = bad])
    /\ OnlyExport

\* run_checks reads the files themselves, one after the other.
CountLines(s) ==
    /\ At("checks") /\ export.lines[s] = -1
    /\ \A t \in Sessions : t < s => export.lines[t] # -1
    /\ LET counted == [export EXCEPT !.lines[s] = Len(log[s])]
       IN export' = IF s = NSessions THEN After(counted) ELSE counted
    /\ OnlyExport

\* _add_file reads the file into the archive, and then once more for its hash.
ArchiveLog(s) ==
    /\ At("logs") /\ export.hashing = 0 /\ s \notin export.done
    /\ \A t \in Sessions : t < s => t \in export.done
    /\ export' = [export EXCEPT !.logs[s] = log[s], !.hashing = s]
    /\ OnlyExport

HashLog ==
    /\ At("logs") /\ export.hashing # 0
    /\ LET s == export.hashing
           hashed == [export EXCEPT !.sums[s] = log[s], !.hashing = 0, !.done = @ \cup {s}]
       IN export' = IF s = NSessions THEN After(hashed) ELSE hashed
    /\ OnlyExport

BuildArchive ==
    \/ Snapshot \/ WriteTables \/ HashLog
    \/ \E s \in Sessions : CountLines(s) \/ ArchiveLog(s)

Next == Writes \/ BuildArchive

Spec == Init /\ [][Next]_avars

-----------------------------------------------------------------------------
(* What the archive says *)

Ends(copied) == {i \in DOMAIN copied : copied[i].kind = "session_end"}

\* _long_rows_for_session: by seq, an event before a render of the same number.
Before(a, b) == a.seq < b.seq \/ (a.seq = b.seq /\ a.kind # "render" /\ b.kind = "render")
LongRows(copied) ==
    LET places == 1..Len(copied)
        order == CHOOSE p \in Bijection(places, places) :
                   \A i, j \in places : i < j => ~Before(copied[p[j]], copied[p[i]])
    IN [i \in places |-> copied[order[i]]]

EndedTwice(copied) == Cardinality(Ends(copied)) > 1
EndedWithoutEvent(e, s) == e.copy.status[s] \in Ended /\ Ends(e.copy.rows[s]) = {}
RowsAfterEnd(copied) ==
    \E i, j \in DOMAIN copied :
      /\ copied[i].kind = "session_end" /\ copied[j].kind # "session_end"
      /\ copied[i].seq < copied[j].seq
DuplicateSeq(copied) ==
    \E i, j \in DOMAIN copied : i # j /\ copied[i].seq = copied[j].seq
FewerLines(e, s) == e.lines[s] < Len(e.copy.rows[s])    \* mutant: rows lost go unseen
LogMismatch(e, s) == e.lines[s] # Len(e.copy.rows[s])

\* run_checks: the findings that count as problems, for one session.  (A session
\* still active is listed for information.)
Problem(e, s) ==
    \/ EndedTwice(e.copy.rows[s]) \/ EndedWithoutEvent(e, s)
    \/ RowsAfterEnd(e.copy.rows[s]) \/ DuplicateSeq(e.copy.rows[s])
    \/ LogMismatch(e, s)
    \/ s \in e.unread

-----------------------------------------------------------------------------
(* Properties *)

CallsOf(lines) == [i \in DOMAIN lines |-> lines[i].call]
FirstCalls(n) == [i \in 1..n |-> i]
Finished == export.stage = 4

\* "This file is what the session is recovered from": whatever the database
\* refuses, the file has a line for every call, in the order the calls were
\* made, and its numbers never go back.  Only a failed append, or a process
\* killed before it, loses a line.
LogIsInOrder ==
    \A s \in Sessions :
      LET written == CallsOf(log[s])
      IN /\ "line" \notin wrong[s] =>
              \/ written = FirstCalls(calls[s])
              \/ \E c \in hand : c.s = s /\ written = FirstCalls(calls[s] - 1)
         /\ \A i, j \in DOMAIN log[s] :
              i < j => /\ log[s][i].call < log[s][j].call
                       /\ NoSeq \notin {log[s][i].seq, log[s][j].seq} =>
                            log[s][i].seq <= log[s][j].seq

\* The archive is one record, though its database is a copy of one moment and
\* its logs are read later, while sessions go on: every session the copy has
\* as ended is in one of the two long files or listed as unread, and what the
\* files say of it up to its end is, in that order, what its archived log says;
\* and of a session left alone meanwhile the manifest has the log's checksum.
ArchiveIsWhole ==
    Finished =>
      \A s \in Sessions :
        LET table == LongRows(export.copy.rows[s])
            upto == {i \in DOMAIN table : table[i].kind = "session_end"}
            told == IF upto = {} THEN <<>> ELSE SubSeq(table, 1, CHOOSE i \in upto : \A j \in upto : i <= j)
        IN export.copy.status[s] \in Ended =>
             /\ s \in InLong(export) \cup InIncomplete(export)
             /\ wrong[s] \subseteq {"late", "endless"} =>
                  IsPrefix(CallsOf(told), CallsOf(export.logs[s]))
             /\ s \notin export.moved => export.sums[s] = export.logs[s]

\* The checks that go with it: of a session that has ended and was left alone
\* while the archive was made, and to which at most one kind of thing has
\* happened, a problem is listed exactly when it could not be read or
\* something did go wrong.
ChecksFindWhatWentWrong ==
    Finished =>
      \A s \in Sessions \ export.moved :
        (export.copy.status[s] \in Ended /\ Cardinality(wrong[s]) <= 1) =>
          (Problem(export, s) <=> (s \in export.unread \/ wrong[s] # {}))
=============================================================================
