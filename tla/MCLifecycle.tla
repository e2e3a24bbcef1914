---------------------------- MODULE MCLifecycle -----------------------------
(* Lifecycle with files that operators may write: repeated, bare, mistyped   *)
(* and out-of-range lines.                                                   *)
EXTENDS Lifecycle

MCEdited ==
    {<<Line("port", Num(80)), Comment, Line("tls", Word("on")), Line("port", Num(70000))>>,
     <<Bare("port")>>,
     <<Line("port", Word("http")), Line("port", Num(80))>>,
     <<Bare("bind"), Line("key", Word("k.pem"))>>,
     <<Line("max_connections", Num(0))>>,
     <<Line("max_connections", Num(-1)), Line("max_upload", Size(256, "GB")), Line("max_cache", Num(-1))>>,
     <<Line("max_body", Size(3, "kb")), Line("prot", Num(1)), Line("header_timeout", Size(5, "s"))>>}
=============================================================================
