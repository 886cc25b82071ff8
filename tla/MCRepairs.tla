----------------------------- MODULE MCRepairs -----------------------------
EXTENDS Repairs
\* Two prefixes, one a copy of the other: how commands follow each other in
\* one of them, and what the backups that they share do to the other.
CONSTANTS base, twin

TwoPrefixes == {base, twin}
\* repair-d3d12 replaces none of the files of this run; MCRepairsTorn has it.
CommandsOfFiles == {"dxvk", "d2d", "performance", "restore"}
OnlyD3D12 == {"d3d12"}
\* A file that two repairs replace, one that is restored, one written in place.
SharedFiles == {"dxgi", "d2d1", "prefs"}
D3D12Files == {"d3d12", "d3d12core"}

(* d2d1 and the two other files have no command, backup or registry value  *)
(* in common, and every property is of one file at a time: a behaviour     *)
(* that repairs both kinds shows nothing that one of each kind does not.   *)
Untouched(F) ==
  \A f \in F : /\ \A p \in made : dll[p][f] = orig[p][f]
               /\ \A s \in Stores : store[s][f] = Absent
OneKind == Untouched({"d2d1"}) \/ Untouched({"dxgi", "prefs"})

(* Where dxgi was missing at first, there is nothing of it to lose: one    *)
(* prefix is enough to take the steps that pass it over.                   *)
MissingOnce == orig[base]["dxgi"] = Absent => made = {base}

(* Only repair-performance replaces the preferences, as its last step and  *)
(* with a backup directory for each prefix: one prefix shows it.           *)
PrefsOnce == dll[twin]["prefs"] = orig[twin]["prefs"]

=============================================================================
