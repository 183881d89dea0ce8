----------------------------- MODULE MCLoginFlows -----------------------------
(***************************************************************************)
(* The two login flows by way of a provider, in the same browser: two tabs, of    *)
(* which one interferes with the login of the other, and two users, of whom the    *)
(* second shows what the first has left; and the cookies over which both split     *)
(* their tokens, written and read by a request of each tab: two cookies of two      *)
(* characters, and values that need one, that fill both, that fall one short, and    *)
(* one that is too long for the two.                                         *)
(***************************************************************************)
EXTENDS SamlFlow, CookieSplitter, TLC

Value(name, length) == [i \in 1..length |-> <<name, i>>]
SplitTokens == {Value("a", 1), Value("b", 2), Value("c", 3), Value("d", 5)}

Symmetric == Permutations(Tabs) \cup Permutations(Users)

VARIABLE auth_type

FlowsInit ==
    /\ SplitterInit
    /\ \/ auth_type = "openid" /\ Init /\ NoFragments
       \/ auth_type = "saml" /\ SamlInit
       \/ auth_type = "pieces" /\ Init /\ NoFragments /\ issued = 0

FlowsNext ==
    /\ UNCHANGED auth_type
    /\ \/ auth_type = "openid" /\ Next /\ UNCHANGED <<fragments, splitterVars>>
       \/ auth_type = "saml" /\ SamlNext /\ UNCHANGED splitterVars
       \/ auth_type = "pieces" /\ SplitterNext /\ UNCHANGED samlVars

FlowsSpec == FlowsInit /\ [][FlowsNext]_<<samlVars, splitterVars, auth_type>>
=============================================================================
