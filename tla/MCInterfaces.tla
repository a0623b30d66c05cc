---------------------------- MODULE MCInterfaces ----------------------------
(* Three interfaces that share no state: a behaviour is a walk through the  *)
(* conversations, a reading of their messages, or a run of authentication   *)
(* requests against the rate limiter.                                       *)
EXTENDS ConversationList, MessageHistory, RateLimit

CONSTANTS address, alice, bob

MCAttempts == {{address, alice}, {address, bob}}
MCLimit == [k \in Keys |-> CASE k = Global -> 3 [] k = address -> 2 [] OTHER -> 1]
MCWindow == [k \in Keys |-> CASE k = Global -> 3 [] k = address -> 4 [] OTHER -> 6]

VARIABLE interface

InterfaceInit ==
    /\ interface \in {"conversations", "messages", "admission"}
    /\ Init /\ HistoryInit /\ RateInit

InterfaceNext ==
    /\ UNCHANGED interface
    /\ \/ /\ interface = "conversations" /\ Next
          /\ UNCHANGED <<historyVars, rateVars>>
       \/ /\ interface = "messages" /\ HistoryNext
          /\ UNCHANGED <<vars, rateVars>>
       \/ /\ interface = "admission" /\ RateNext
          /\ UNCHANGED <<vars, historyVars>>

InterfaceSpec ==
    InterfaceInit /\ [][InterfaceNext]_<<interface, vars, historyVars, rateVars>>
=============================================================================
