---------------------------- MODULE MCPolicyRules ----------------------------
(***************************************************************************)
(* Bounds for PolicyRules: every file of at most two rules over two        *)
(* departments and one category (a wildcard among the rules), limits with  *)
(* and without a fraction of a cent, and amounts around every limit.       *)
(***************************************************************************)
EXTENDS PolicyRules

MCRules ==
  [department : Departments, category : Categories, lower : BOOLEAN,
   limit : {30, 45}, escalation : {60, None}]
  \union
  [department : Departments, category : {"*"}, lower : {TRUE},
   limit : {30, 45}, escalation : {60, None}]

MCFiles ==
  [default : {20}, rules : {<<>>} \union {<<r>> : r \in MCRules}
                           \union {<<r, s>> : r, s \in MCRules}]

MCAmounts == {0, 5, 6, 15, 25, 30, 45, 46, 55, 66, 95}

=============================================================================
