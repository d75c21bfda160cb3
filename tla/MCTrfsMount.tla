----------------------------- MODULE MCTrfsMount -----------------------------
(***************************************************************************)
(* Mount requests for TrfsMount: dev_name given or not; options NULL, or   *)
(* up to two tokens, "tfile" (tfile=%s) or any other; the tfile path a     *)
(* regular file, a special file, or one filp_open fails on; the lower      *)
(* directory present or not; and which allocation, if any, fails.          *)
(***************************************************************************)
EXTENDS TrfsMount

MCOptions ==
    {<<>>, <<"tfile">>, <<"junk">>, <<"tfile", "junk">>, <<"junk", "tfile">>}

MCRequests ==
    [dev : BOOLEAN, raw : {FALSE}, opts : {<<>>},
     file : {"regular", "special", "unopenable"}, lower : BOOLEAN,
     nomem : {"none", "t_op", "tld", "sb_info", "root"}]
    \cup
    [dev : BOOLEAN, raw : {TRUE}, opts : MCOptions,
     file : {"regular", "special", "unopenable"}, lower : BOOLEAN,
     nomem : {"none", "t_op", "tld", "sb_info", "root"}]
=============================================================================
