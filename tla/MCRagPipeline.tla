---------------------------- MODULE MCRagPipeline -----------------------------
(* Instance of RagPipeline for TLC: documents that all may read, with every *)
(* interesting content, and documents that some callers may not read, with  *)
(* contents that would change an aggregate verdict.                          *)
EXTENDS RagPipeline

Doc(restricted, roles, team, untrusted, lines) ==
    [restricted |-> restricted, roles |-> roles, team |-> team,
     untrusted |-> untrusted, lines |-> lines]

MCContents ==
    {<<"text">>, <<"head">>, <<"tail">>, <<"encoded">>, <<"marker">>, <<"quoted">>,
     <<"discussion", "head">>, <<"head", "attack", "tail">>}

MCOpen == {Doc(FALSE, {}, NoTeam, u, ls) : u \in BOOLEAN, ls \in MCContents}

MCGuarded ==
    UNION {{Doc(TRUE, {}, NoTeam, FALSE, ls), Doc(FALSE, {"sales"}, NoTeam, FALSE, ls),
            Doc(FALSE, {}, "risk", FALSE, ls)} : ls \in {<<"head">>, <<"quoted">>}}

MCDocuments == MCOpen \cup MCGuarded

MCPrincipals == {[role |-> "admin", team |-> "it"], [role |-> "sales", team |-> "crm"],
                 [role |-> "analyst", team |-> "risk"]}
==============================================================================
