------------------------------ MODULE MCPlugin ------------------------------
(* Model-checking harness for Plugin: the default search order of         *)
(* get_default_libpath, /usr/lib/sysmaster/plugin/ before the build output *)
(* directory; a third directory is one a caller may add later.            *)
EXTENDS Plugin
MCDefaultPath == <<"sys", "devel">>
=============================================================================
