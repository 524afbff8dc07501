------------------------------- MODULE MCOptIn -------------------------------
(* A prompt that asks for a click and has no gate but the captcha.           *)
EXTENDS OptIn

MCOwners ==
  {[reask |-> FALSE, samePage |-> FALSE, autoClose |-> FALSE,
    yes |-> "subscribe", ios |-> FALSE, visitor |-> "all", human |-> FALSE,
    farm |-> FALSE, turnstile |-> TRUE]}
=============================================================================
