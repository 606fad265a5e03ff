------------------------------ MODULE MCService ------------------------------
(***************************************************************************)
(* The service on a small instance.  The kinds are chosen to cover the     *)
(* ways a callback can treat a response: "listModels" decodes it,          *)
(* "addModelGroup" checks "ok", "send" ignores it, and                     *)
(* "moveModelFileToGroup" is here a request that cannot be encoded.        *)
(***************************************************************************)
EXTENDS Service

MCKinds == {"listModels", "addModelGroup", "send", "moveModelFileToGroup"}

MCMisbehaviours == {"lost", "rejected", "garbledEvent", "garbledReply"}
=============================================================================
