------------------------ MODULE MCProgrammaticLaunch ------------------------
(***************************************************************************)
(* Entries with an access in a region, with a token chain, with a token    *)
(* made before the wait, with an explicit trigger or wait, without any     *)
(* access, and with one under an isolated operation.                       *)
(***************************************************************************)
EXTENDS ProgrammaticLaunch, TLC

Op(kind, item, region, tokens) ==
  [kind |-> kind, item |-> item, region |-> region, isolated |-> FALSE,
   tokens |-> tokens]

\* A load and the store of its result, as layout propagation writes them.
LoadStore == (1 :> Op("access", 1, FALSE, {})) @@ (2 :> Op("access", 2, FALSE, {1}))

\* A persistent CTA may have no tile: its only access is in a region, and its
\* token is made outside.
GuardedStore ==
  (1 :> Op("make_token", 1, FALSE, {})) @@ (2 :> Op("access", 2, TRUE, {1}))

\* The dependents are let go before the access.
EarlyTrigger ==
  (1 :> Op("gdc_launch_dependents", 1, FALSE, {})) @@ (2 :> Op("access", 2, FALSE, {}))

ExplicitWait ==
  (1 :> Op("gdc_wait", 1, FALSE, {})) @@ (2 :> Op("access", 2, FALSE, {1}))

NoAccess == (1 :> Op("make_token", 1, FALSE, {}))

IsolatedAccess ==
  (1 :> [Op("access", 1, TRUE, {}) EXCEPT !.isolated = TRUE])

MCEntries == {LoadStore, GuardedStore, EarlyTrigger, ExplicitWait, NoAccess,
              IsolatedAccess}

MCOptions ==
  [gdc : {"none", "conservative", "other"}, cc : {80, 90}, version : {133, 134}, load : {{}}]
    \cup [gdc : {"conservative"}, cc : {90}, version : {134}, load : {{LoadStore}}]

Symmetry == Permutations(CTAs)
=============================================================================
