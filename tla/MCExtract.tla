------------------------------ MODULE MCExtract ------------------------------
(* Two certificates, two places for the xray configuration and for the
   database, one text and one piece of system information: every order of hits
   and misses occurs.  ExtractAllDatabases goes through the same two places;
   more of them add nothing to its loop.                                      *)
EXTENDS Extract

MCInfos     == <<"os_version">>
MCDomains   == <<"a.example", "b.example">>
MCXrayPaths == <<"/etc/xray", "/opt/xray">>
MCDbPaths   == <<"/opt/3x-ui", "/var/lib/xui">>
MCMoreDbs   == <<>>
MCTexts     == {"daemon.json"}
==============================================================================
