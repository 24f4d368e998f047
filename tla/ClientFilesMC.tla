---------------------------- MODULE ClientFilesMC ----------------------------
(* ClientFiles with workers, identities and hosts that are interchangeable. *)
(* The identity's files, hosts.json and settings.json are read and written  *)
(* in one run of the program, but no step depends on two of them: a second  *)
(* identity, a second host and a change of settings are explored one at a   *)
(* time, each against all that happens to the other files.                  *)
EXTENDS ClientFiles, TLC

Symmetry == Permutations(Worker) \cup Permutations(Identity) \cup Permutations(Host)

HostsMet == kept.hosts \cup {goal[w] : w \in Worker} \cup UNION {doc[w].hosts : w \in Worker}
SettingsUntouched == settings = Absent /\ shown = Default /\ ~trouble

MCNext ==
  /\ Next
  /\ \/ Cardinality(HostsMet \ {None})' <= 1 /\ SettingsUntouched'
     \/ Cardinality(made)' <= 1 /\ SettingsUntouched'
     \/ Cardinality(made)' <= 1 /\ Cardinality(HostsMet \ {None})' <= 1

MCSpec == Init /\ [][MCNext]_vars
=============================================================================
