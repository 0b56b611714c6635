---------------------------- MODULE MCSmsGateway ----------------------------
(***************************************************************************)
(* Two requests at a gateway with one of several provider chains.          *)
(***************************************************************************)
EXTENDS SmsGateway

CONSTANTS r1, r2

P(name) == [provider |-> name, section |-> TRUE]
Bare(name) == [provider |-> name, section |-> FALSE]

SomeChains == {<<P("orange")>>, <<P("orange"), Bare("console")>>,
               <<Bare("sns"), P("mtarget")>>, <<P("api"), P("whatsapp")>>,
               <<P("avlytext")>>, <<Bare("console"), Bare("mtarget")>>}

Mobile == [nine |-> TRUE, mobile |-> TRUE]
Short == [nine |-> FALSE, mobile |-> TRUE]

Number(plus, zeros, cc, local) ==
  [plus |-> plus, zeros |-> zeros, cc |-> cc, local |-> local]

\* One caller names 002376xxxxxxxx, the other 6xxxxxxxx or a short number.
SomeNumbers ==
  [r \in Requests |->
     IF r = r1 THEN {Number(FALSE, 1, TRUE, Mobile)}
     ELSE {Number(FALSE, 0, FALSE, Mobile), Number(FALSE, 0, FALSE, Short)}]
=============================================================================
