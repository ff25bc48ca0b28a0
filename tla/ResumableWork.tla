---------------------------- MODULE ResumableWork ----------------------------
(***************************************************************************)
(* What `plinius benchmark' and `plinius evaluate' promise the operator    *)
(* who runs them again and again: a piece of work that is paid for once.   *)
(* Each piece leaves one file.  It is begun only while it has no file; the *)
(* file is opened by the one who does the work and then gets its content;  *)
(* a whole file is never opened again, and one whose writer is gone stays  *)
(* as it is.  Sessions, passes, workers, crashes and failed writes do not  *)
(* appear: each of them only moves pieces of work along.  BenchmarkRun and *)
(* Evaluation are the detailed specifications that implement this one.     *)
(***************************************************************************)

CONSTANT Key      \* the pieces of work

VARIABLE status   \* how far each of them is

Status == {"absent", "busy", "writing", "torn", "whole"}

(* Work that is given up leaves no file, or a torn one for good. *)
Moves ==
  {<<s, s>> : s \in Status}
    \cup {<<"absent", "busy">>, <<"busy", "absent">>, <<"busy", "writing">>,
          <<"writing", "whole">>, <<"writing", "torn">>}

WorkInit == status = [k \in Key |-> "absent"]

(* Any of the pieces move, each by itself. *)
Work ==
  /\ status' \in [Key -> Status]
  /\ \A k \in Key : <<status[k], status'[k]>> \in Moves

(* Files are removed while nobody works. *)
Clear ==
  /\ status' \in [Key -> Status]
  /\ \A k \in Key : status[k] \notin {"busy", "writing"} /\ status'[k] \in {status[k], "absent"}

(* Work whose files nobody removes, and work whose files may be removed. *)
WorkSpec == WorkInit /\ [][Work]_status
StoreSpec == WorkInit /\ [][Work \/ Clear]_status
=============================================================================
