---------------------------- MODULE MCWsdlExport ----------------------------
(***************************************************************************)
(* The endpoints of the token service for TLC: none, one or two             *)
(* TransportBindings in a policy, where the removal finds them or not.      *)
(***************************************************************************)
EXTENDS WsdlExport

SomeTransports == {<<>>, <<"alternative">>, <<"elsewhere">>, <<"alternative", "elsewhere">>}
=============================================================================
