--------------------------- MODULE ProvisionProofs ---------------------------
(***************************************************************************)
(* Proofs about Provision: for any verbs and any prefixes, if DATA/prefix  *)
(* is the only one that users prepare, what its markers promise is there.  *)
(***************************************************************************)
EXTENDS Provision, TLAPS

Own == {"extract", "unmark", "boot", "init", "verbs", "mark", "record"}
InRepair == {"cabinet", "dll", "install", "overrides", "browser"}
AfterVerbs == InRepair \cup {"record"}

(* What prepare has done is a matter of where it is: a system.reg is there  *)
(* before the first verb, a verb that it no longer has to look at is        *)
(* installed, whether by this prepare or by one that was killed earlier,    *)
(* and every DLL has been written to its end before prepared.json.          *)
Progress ==
  /\ pc \in Own => ~alone
  /\ pc \in Own \cup InRepair /\ ~alone => at = Base
  /\ pc = "cp" => at # Base
  /\ pc \in {"boot", "init", "verbs", "mark"} \cup AfterVerbs /\ ~alone => ~prepared
  /\ pc \in {"verbs", "mark"} \cup AfterVerbs /\ ~alone => HasSystemReg(Base)
  /\ pc \in {"verbs", "mark"} => Verbs \ rest \subseteq deps[Base]
  /\ pc = "mark" => verb \in deps[Base]
  /\ pc \in AfterVerbs /\ ~alone => Verbs \subseteq deps[Base]
  /\ pc \in {"cabinet", "dll", "install"} /\ ~alone /\ arch = "x64" =>
       "x86" \in deps[Base] /\ "x86" \notin torn[Base]
  /\ pc = "install" /\ ~alone => arch \notin torn[Base]
  /\ pc \in {"overrides", "browser", "record"} /\ ~alone =>
       Arches \subseteq deps[Base] /\ torn[Base] = {}
  /\ pc \in {"browser", "record"} /\ ~alone => "overrides" \in deps[Base]
  /\ pc = "record" => Browser \in deps[Base]

(* A copy can only be complete with a whole or no Lightroom if DATA/prefix  *)
(* never holds part of one.                                                *)
IInv == TypeOK /\ PreparedComplete /\ Progress /\ AppWhole

(* A user prepares DATA/prefix and no other prefix. *)
BaseOnly == Preparable \subseteq {Base}

LEMMA Constants ==
  /\ Base \in Prefixes /\ Preparable \subseteq Prefixes /\ None \notin Prefixes \cup Verbs
  /\ Browser \notin Verbs /\ (Verbs \cup {Browser}) \cap (Arches \cup {"overrides"}) = {}
BY ProvisionAssumption DEF ProvisionAssumption

LEMMA ProvisionInit == Init => IInv
BY Constants DEF Init, IInv, TypeOK, PreparedComplete, Progress, AppWhole, Own, InRepair,
   AfterVerbs, Amounts, Homes, Labels, Deps, Arches, None

(* No step depends on who prepares what for its variables to keep their    *)
(* types; an extraction and a Boot are the ones that change what is there. *)
LEMMA TypeStep == TypeOK /\ [Next]_vars => TypeOK'
<1> SUFFICES ASSUME TypeOK, [Next]_vars PROVE TypeOK'
  OBVIOUS
<1> USE Constants DEF TypeOK, Labels, Amounts, Homes, Deps, Arches, disk
<1>1. ASSUME NEW p \in Prefixes, Prepare(p) \/ StageLightroom(p) \/ StageCopy(p)
      PROVE  TypeOK'
  BY <1>1 DEF Prepare, StageLightroom, StageCopy
<1>2. ASSUME NEW p \in Prefixes, RepairAlone(p)
      PROVE  TypeOK'
  BY <1>2 DEF RepairAlone
<1>3. CASE Extract BY <1>3 DEF Extract
<1>4. CASE Unmark BY <1>4 DEF Unmark
<1>5. CASE Boot BY <1>5 DEF Boot, HasSystemReg
<1>6. CASE BootEnds BY <1>6 DEF BootEnds
<1>7. CASE VerbsEnd BY <1>7 DEF VerbsEnd
<1>8. CASE MarkVerb BY <1>8 DEF MarkVerb
<1>9. CASE WriteDll BY <1>9 DEF WriteDll
<1>10. CASE DllWritten BY <1>10 DEF DllWritten
<1>11. CASE InstallVcrun BY <1>11 DEF InstallVcrun
<1>12. CASE OverrideVcrun BY <1>12 DEF OverrideVcrun
<1>13. CASE RepairBrowser BY <1>13 DEF RepairBrowser
<1>14. CASE Record BY <1>14 DEF Record
<1>15. CASE Unpack BY <1>15 DEF Unpack
<1>16. CASE RenameLightroom BY <1>16 DEF RenameLightroom
<1>17. CASE CopyPrefix
  <2>1. CASE home[at] = "absent" BY <1>17, <2>1 DEF CopyPrefix
  <2>2. CASE home[at] # "absent" BY <1>17, <2>2 DEF CopyPrefix
  <2> QED BY <2>1, <2>2
<1>18. CASE Announce BY <1>18 DEF Announce
<1>19. ASSUME NEW v \in Verbs, SkipVerb(v) \/ InstallVerb(v)
       PROVE  TypeOK'
  <2>1. CASE SkipVerb(v) BY <2>1 DEF SkipVerb
  <2>2. CASE InstallVerb(v)
    <3>1. deps' \in [Prefixes -> SUBSET Deps] BY <2>2 DEF InstallVerb
    <3> QED BY <2>2, <3>1 DEF InstallVerb
  <2> QED BY <1>19, <2>1, <2>2
<1>20. CASE Stops BY <1>20 DEF Stops
<1>21. CASE UNCHANGED vars BY <1>21 DEF vars, command
<1> QED BY <1>1, <1>2, <1>3, <1>4, <1>5, <1>6, <1>7, <1>8, <1>9, <1>10, <1>11, <1>12,
           <1>13, <1>14, <1>15, <1>16, <1>17, <1>18, <1>19, <1>20, <1>21 DEF Next

(* The steps of prepare, one after the other, establish what the next one  *)
(* relies on; all others leave the dependencies of DATA/prefix in place.   *)
LEMMA ProgressStep ==
  BaseOnly /\ IInv /\ [Next]_vars => (PreparedComplete /\ Progress)'
<1> SUFFICES ASSUME BaseOnly, IInv, [Next]_vars PROVE (PreparedComplete /\ Progress)'
  OBVIOUS
<1> USE Constants DEF IInv, TypeOK, PreparedComplete, Progress, Own, InRepair, AfterVerbs,
                      HasSystemReg, Arches, disk
<1>1. ASSUME NEW p \in Prefixes, Prepare(p) \/ StageLightroom(p) \/ StageCopy(p)
      PROVE  (PreparedComplete /\ Progress)'
  BY <1>1 DEF Prepare, StageLightroom, StageCopy, BaseOnly
<1>2. ASSUME NEW p \in Prefixes, RepairAlone(p)
      PROVE  (PreparedComplete /\ Progress)'
  BY <1>2 DEF RepairAlone
<1>3. CASE Extract BY <1>3 DEF Extract
<1>4. CASE Unmark BY <1>4 DEF Unmark
<1>5. CASE Boot BY <1>5 DEF Boot, HasSystemReg
<1>6. CASE BootEnds BY <1>6 DEF BootEnds
<1>7. CASE VerbsEnd BY <1>7 DEF VerbsEnd
<1>8. CASE MarkVerb BY <1>8 DEF MarkVerb
<1>9. CASE WriteDll BY <1>9 DEF WriteDll
<1>10. CASE DllWritten BY <1>10 DEF DllWritten
<1>11. CASE InstallVcrun BY <1>11 DEF InstallVcrun, Deps
<1>12. CASE OverrideVcrun BY <1>12 DEF OverrideVcrun, Deps
<1>13. CASE RepairBrowser BY <1>13 DEF RepairBrowser, Deps
<1>14. CASE Record BY <1>14 DEF Record, Deps
<1>15. CASE Unpack BY <1>15 DEF Unpack
<1>16. CASE RenameLightroom BY <1>16 DEF RenameLightroom
<1>17. CASE CopyPrefix
  <2>1. CASE home[at] = "absent" BY <1>17, <2>1 DEF CopyPrefix
  <2>2. CASE home[at] # "absent" BY <1>17, <2>2 DEF CopyPrefix
  <2> QED BY <2>1, <2>2
<1>18. CASE Announce BY <1>18 DEF Announce
<1>19. ASSUME NEW v \in Verbs, SkipVerb(v) \/ InstallVerb(v)
       PROVE  (PreparedComplete /\ Progress)'
  BY <1>19 DEF SkipVerb, InstallVerb
<1>20. CASE Stops BY <1>20 DEF Stops
<1>21. CASE UNCHANGED vars BY <1>21 DEF vars, command
<1> QED BY <1>1, <1>2, <1>3, <1>4, <1>5, <1>6, <1>7, <1>8, <1>9, <1>10, <1>11, <1>12,
           <1>13, <1>14, <1>15, <1>16, <1>17, <1>18, <1>19, <1>20, <1>21 DEF Next

(* Only a copy can hold part of Lightroom, and it does while it is not     *)
(* complete; DATA/prefix is the only prefix that Boot makes whole.         *)
LEMMA AppStep ==
  IInv /\ [Next]_vars => AppWhole'
<1> SUFFICES ASSUME IInv, [Next]_vars PROVE AppWhole'
  OBVIOUS
<1> USE Constants DEF IInv, TypeOK, Progress, Own, AppWhole
<1>1. CASE UNCHANGED <<home, app>> BY <1>1
<1>2. CASE Unmark BY <1>2 DEF Unmark
<1>3. CASE Boot BY <1>3 DEF Boot
<1>4. CASE BootEnds BY <1>4 DEF BootEnds
<1>5. CASE Unpack BY <1>5 DEF Unpack
<1>6. CASE RenameLightroom BY <1>6 DEF RenameLightroom
<1>7. CASE CopyPrefix
  <2>1. CASE home[at] = "absent" BY <1>7, <2>1 DEF CopyPrefix
  <2>2. CASE home[at] # "absent" BY <1>7, <2>2 DEF CopyPrefix
  <2> QED BY <2>1, <2>2
<1> QED BY <1>1, <1>2, <1>3, <1>4, <1>5, <1>6, <1>7
        DEF Next, Prepare, StageLightroom, StageCopy, RepairAlone, Extract, VerbsEnd,
            MarkVerb, WriteDll, DllWritten, InstallVcrun, OverrideVcrun, RepairBrowser,
            Record, Announce, SkipVerb, InstallVerb, Stops, vars, command, disk

(* For any prefixes and verbs, the variables keep their types. *)
THEOREM ProvisionTyped == Spec => []TypeOK
<1>1. Init => TypeOK BY ProvisionInit DEF IInv
<1> QED BY <1>1, TypeStep, PTL DEF Spec

LEMMA ProvisionInv == ASSUME BaseOnly PROVE Spec => []IInv
<1>1. IInv /\ [Next]_vars => IInv'
  <2>1. IInv => TypeOK BY DEF IInv
  <2> QED BY <2>1, TypeStep, ProgressStep, AppStep DEF IInv
<1> QED BY <1>1, ProvisionInit, PTL DEF Spec

(* For any prefixes and verbs: if only DATA/prefix is prepared, its        *)
(* markers and prepared.json promise nothing that is missing, wherever     *)
(* earlier prepares, repairs and copies were killed.                       *)
THEOREM ProvisionPrepared == ASSUME BaseOnly PROVE Spec => []PreparedComplete
<1>1. IInv => PreparedComplete BY DEF IInv
<1> QED BY <1>1, ProvisionInv, PTL

(* For any prefixes, if only DATA/prefix is prepared: it and its complete  *)
(* copies hold all of Lightroom or none of it.                             *)
THEOREM ProvisionAppWhole == ASSUME BaseOnly PROVE Spec => []AppWhole
<1>1. IInv => AppWhole BY DEF IInv
<1> QED BY <1>1, ProvisionInv, PTL
=============================================================================
