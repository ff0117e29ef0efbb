----------------------------- MODULE FriendSend -----------------------------
(***************************************************************************)
(* A KakaoTalk message to the friends of a channel (kakao_handlers.py,     *)
(* kakao_plan.py, kakao_send.py).  The text is cut into parts, at most     *)
(* MaxParts of which are sent; a checkpoint file the caller names keeps    *)
(* the indexes that went out, so that a run after a failure sends the      *)
(* rest; only a completed run consumes the approval and counts the parts   *)
(* it sent itself against the quota.                                       *)
(*                                                                         *)
(* A run may fail at any part, whether or not the part arrived, or be      *)
(* killed between any two steps.  The gate is OutwardSend's; here an       *)
(* approval is at hand or not.                                             *)
(***************************************************************************)
EXTENDS Collections

CONSTANTS
  Messages,
  ChunksOf,   \* how many parts each message is cut into
  MaxParts,   \* DEFAULT_MAX_PARTS_PER_RUN
  Files,      \* checkpoint files
  MaxSends    \* bound on parts sent

VARIABLES
  approved,   \* messages an approval is at hand for
  checkpoint, \* completed_part_indexes, by file
  units,      \* units in quota.json
  run,        \* the run under way
  arrived,    \* history: <<message, index>> of the parts friends have seen
  credit,     \* history: <<file, index, message>>, whose part an index stands for
  sends       \* history: how many parts were sent

vars == <<approved, checkpoint, units, run, arrived, credit, sends>>

\* build_send_plan: what is over the cap is not part of the plan.
PlannedParts(message) ==
  0 .. (IF ChunksOf[message] > MaxParts THEN MaxParts ELSE ChunksOf[message]) - 1

MissingParts(r) == PlannedParts(r.msg) \ r.done

NoRun == [step |-> "none"]

Init ==
  /\ approved = {} /\ checkpoint = [f \in Files |-> {}] /\ units = 0 /\ run = NoRun
  /\ arrived = {} /\ credit = {} /\ sends = 0

\* The teacher approves the message, perhaps once more.
Grant(message) ==
  /\ approved' = approved \cup {message}
  /\ UNCHANGED <<checkpoint, units, run, arrived, credit, sends>>

\* The gate is passed and the checkpoint read.
StartSend(message, file) ==
  /\ run = NoRun /\ message \in approved
  /\ run' = [step |-> "send", msg |-> message, file |-> file, done |-> checkpoint[file], sent |-> {}]
  /\ UNCHANGED <<approved, checkpoint, units, arrived, credit, sends>>

SendPart ==
  LET part == Min(MissingParts(run)) IN
  /\ run.step = "send" /\ MissingParts(run) # {} /\ sends < MaxSends
  /\ arrived' = arrived \cup {<<run.msg, part>>}
  /\ sends' = sends + 1
  /\ run' = [run EXCEPT !.step = "record", !.done = @ \cup {part}, !.sent = @ \cup {part}]
  /\ UNCHANGED <<approved, checkpoint, units, credit>>

SaveCheckpoint(indexes) ==
  /\ checkpoint' = [checkpoint EXCEPT ![run.file] = indexes]
  /\ credit' = credit \cup {<<run.file, i, run.msg>> : i \in indexes \ checkpoint[run.file]}

RecordPart ==
  /\ run.step = "record"
  /\ SaveCheckpoint(run.done)
  /\ run' = [run EXCEPT !.step = "send"]
  /\ UNCHANGED <<approved, units, arrived, sends>>

\* A bug to be caught: the part is entered before it is sent.
FailPartEntered(seen) ==
  LET part == Min(MissingParts(run)) IN
  /\ run.step = "send" /\ MissingParts(run) # {} /\ sends < MaxSends
  /\ arrived' = IF seen THEN arrived \cup {<<run.msg, part>>} ELSE arrived
  /\ SaveCheckpoint(run.done \cup {part})
  /\ run' = NoRun
  /\ UNCHANGED <<approved, units, sends>>

\* The page reports an error, with the part sent after all or not.
FailPart(seen) ==
  LET part == Min(MissingParts(run)) IN
  /\ run.step = "send" /\ MissingParts(run) # {} /\ sends < MaxSends
  /\ arrived' = IF seen THEN arrived \cup {<<run.msg, part>>} ELSE arrived
  /\ sends' = IF seen THEN sends + 1 ELSE sends
  /\ SaveCheckpoint(run.done)
  /\ run' = NoRun
  /\ UNCHANGED <<approved, units>>

CompleteRun ==
  /\ run.step = "send" /\ MissingParts(run) = {}
  /\ SaveCheckpoint(run.done)
  /\ run' = [run EXCEPT !.step = "consume"]
  /\ UNCHANGED <<approved, units, arrived, sends>>

Consume ==
  /\ run.step = "consume"
  /\ approved' = approved \ {run.msg}
  /\ run' = [run EXCEPT !.step = "count"]
  /\ UNCHANGED <<checkpoint, units, arrived, credit, sends>>

\* record_kakao_send_usage: the parts of this run only.
RecordUsage ==
  /\ run.step = "count"
  /\ units' = units + Cardinality(run.sent)
  /\ run' = NoRun
  /\ UNCHANGED <<approved, checkpoint, arrived, credit, sends>>

Kill ==
  /\ run # NoRun
  /\ run' = NoRun
  /\ UNCHANGED <<approved, checkpoint, units, arrived, credit, sends>>

Next ==
  \/ \E message \in Messages : Grant(message) \/ \E file \in Files : StartSend(message, file)
  \/ SendPart \/ RecordPart \/ CompleteRun \/ Consume \/ RecordUsage \/ Kill
  \/ \E seen \in BOOLEAN : FailPart(seen)

Spec == Init /\ [][Next]_vars

-----------------------------------------------------------------------------
(* An approval is spent only on a message whose every part within the cap  *)
(* went out, in this run or in earlier ones that failed or were killed;    *)
(* the one gap is an index another message left in the same checkpoint     *)
(* file.  And the quota never counts more units than parts were sent       *)
(* (run_kakao_send_sequence, send_friend_with_page).                       *)
SpentMeansDelivered ==
  /\ run.step \in {"consume", "count"} =>
       \A part \in PlannedParts(run.msg) :
         \/ <<run.msg, part>> \in arrived
         \/ \E other \in Messages \ {run.msg} : <<run.file, part, other>> \in credit
  /\ units <= sends
=============================================================================
