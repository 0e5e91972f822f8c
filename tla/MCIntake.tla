------------------------------- MODULE MCIntake -------------------------------
(***************************************************************************)
(* Small instances of Intake for TLC.                                      *)
(***************************************************************************)
EXTENDS Intake

CONSTANTS a1, a2

TwoAddresses == {a1, a2}
OneLocal == {a1}

Plain(to) == [bad |-> "nothing", to |-> to]
Single == [drafts |-> <<Plain({a1, a2})>>, batch |-> FALSE, test |-> FALSE]
Batch == [drafts |-> <<[bad |-> "limit", to |-> {a1}], Plain({a1}), Plain({a2})>>,
          batch |-> TRUE, test |-> FALSE]
OnTest == [drafts |-> <<Plain({a1})>>, batch |-> FALSE, test |-> TRUE]

AllRequests == {Single, Batch, OnTest}
SendTwice == [match |-> {Single, Batch}, times |-> 2]
BatchOnce == [match |-> {Batch}, times |-> 1]
TwoRules == {SendTwice, BatchOnce}

SmtpRule(stage, times, code) == [stage |-> stage, times |-> times, code |-> code]
OnePerStage ==
  {SmtpRule("connect", 1, 421), SmtpRule("mail", 1, 451), SmtpRule("rcpt", 2, 451),
   SmtpRule("data", 1, 421)}
=============================================================================
