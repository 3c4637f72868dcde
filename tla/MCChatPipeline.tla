--------------------------- MODULE MCChatPipeline -----------------------------
(* Instance of ChatPipeline for TLC: one prompt for each way to reach a      *)
(* decision, several of them only across messages.                           *)
EXTENDS ChatPipeline

MCPrompts ==
    {<< <<"text">> >>,
     << <<"text", "pii">>, <<"pii">> >>,
     << <<"pii1">>, <<"pii2">> >>,
     << <<"mild">>, <<"text">> >>,
     << <<"mild">>, <<"pii">> >>,
     << <<"head">>, <<"tail">> >>,
     << <<"discussion">>, <<"secret">> >>,
     << <<"marker">>, <<"quoted">> >>}

MCOutputs == {<<"text">>, <<"pii1", "pii2">>, <<"secret">>}
==============================================================================
