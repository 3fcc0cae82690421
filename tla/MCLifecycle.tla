---------------------------- MODULE MCLifecycle ----------------------------
(* Instances of Lifecycle for TLC. *)
EXTENDS Lifecycle

Whole == [exists |-> TRUE, production |-> TRUE, sections |-> Section, faulty |-> {}, unknown |-> FALSE,
          sameSecrets |-> FALSE, devFixedCode |-> FALSE, keys |-> {1, 2}, currentVersion |-> 2]

\* Whole files, and every way for one thing to be missing or wrong.
MCConfigs == {Whole, [Whole EXCEPT !.sections = Required, !.production = FALSE, !.devFixedCode = TRUE],
              [Whole EXCEPT !.exists = FALSE], [Whole EXCEPT !.unknown = TRUE],
              [Whole EXCEPT !.sameSecrets = TRUE], [Whole EXCEPT !.devFixedCode = TRUE],
              [Whole EXCEPT !.keys = {1}], [Whole EXCEPT !.sections = {}]}
             \cup {[Whole EXCEPT !.sections = @ \ {s}] : s \in Required}
             \cup {[Whole EXCEPT !.faulty = {s}] : s \in Section}
=============================================================================
