--------------------------- MODULE PrefixSession ---------------------------
(***************************************************************************)
(* The promise of the launcher for one Wine prefix: at any moment the      *)
(* prefix is quiet, or runs processes of exactly one runtime, or is        *)
(* unattended: a launcher was killed while it brought up Wine, and what    *)
(* may come up then is out of the launcher's hands.  From one runtime to   *)
(* another, and out of an unattended session, it passes only through a     *)
(* quiet prefix.                                                           *)
(***************************************************************************)
CONSTANTS Runtimes,   \* the staged runtimes
          Quiet,      \* no process lives in the prefix
          Unattended  \* nothing is promised of the processes that live
VARIABLE session      \* the runtime the prefix is running, or one of these

SInit == session = Quiet

(* The first process of a session decides its runtime. *)
Open == session = Quiet /\ session' \in Runtimes

(* A launcher is killed while what it started is booting. *)
Abandon == session \in Runtimes /\ session' = Unattended

(* The last process of the session ends. *)
Close == session # Quiet /\ session' = Quiet

SNext == Open \/ Abandon \/ Close

SSpec == SInit /\ [][SNext]_session
=============================================================================
