------------------------------- MODULE Academy -------------------------------
(***************************************************************************)
(* The academy's two stores: the JSON store that imports extend            *)
(* (AcademyImport) and the SQLite database that write actions change       *)
(* (WriteAction).  They share no file, no approval and no process, so a    *)
(* behaviour follows the commands on one of them and leaves the other as   *)
(* it is.                                                                  *)
(***************************************************************************)
EXTENDS AcademyImport, WriteAction

VARIABLE part  \* the store that is followed; a behaviour keeps to it

academyVars == <<vars, writeVars, part>>

AcademyInit ==
  /\ Init /\ WriteInit
  /\ part \in {"imports", "write actions"}

Import == part = "imports" /\ Next /\ UNCHANGED <<writeVars, part>>
Write == part = "write actions" /\ WriteNext /\ UNCHANGED <<vars, part>>

AcademyNext == Import \/ Write

AcademySpec == AcademyInit /\ [][AcademyNext]_academyVars
=============================================================================
