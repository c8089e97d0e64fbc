--------------------------- MODULE TelegramSettings ---------------------------
(***************************************************************************)
(* What the Telegram adapters of one ledger are given: the notifications    *)
(* and the configurations in use (notification/telegram.py).                *)
(***************************************************************************)
EXTENDS Naturals, FiniteSets

CONSTANTS
  Adapters,       \* adapters on one ledger, in one process or several
  Keys,           \* notification ids
  Markets,
  Notifications,  \* notifications in use
  Configs         \* configurations in use

Notification ==
  [key : Keys, market : Markets,
   pre_match : BOOLEAN,   \* issued before kickoff
   renders : BOOLEAN]     \* fits the length limit and the text checks

Config ==
  [mode : {"dry_run", "test", "production"}, client : BOOLEAN,
   max_attempts : Nat \ {0},
   enabled : BOOLEAN, production_enabled : BOOLEAN,
   allowed_markets : SUBSET Markets, require_pre_match : BOOLEAN]

ASSUME SettingsAssumption ==
  /\ IsFiniteSet(Adapters)
  /\ Notifications \subseteq Notification /\ Notifications # {}
  /\ \A m, n \in Notifications : m.key = n.key => m = n
  /\ Configs \subseteq Config /\ Configs # {}
=============================================================================
