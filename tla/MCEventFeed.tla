---------------------------- MODULE MCEventFeed ----------------------------
(***************************************************************************)
(* Finite instances of EventFeed: account work with one login or with two, *)
(* w1 and then w2, account home with h1, and a chat with a person and one  *)
(* with a bot.                                                             *)
(***************************************************************************)
EXTENDS EventFeed, TLC

CONSTANTS work, home, w1, w2, h1, bob, bot, v1, v2

OneLogin  == (w1 :> work)
TwoLogins == (w1 :> work @@ w2 :> work)
Logins    == (w1 :> work @@ w2 :> work @@ h1 :> home)
============================================================================
