-------------------------- MODULE MCKeyCacheRefresh --------------------------
(* One OpenPGP key and one certificate. *)
EXTENDS KeyCacheRefresh

CONSTANTS OpenPGP, CMS, pgp1, cms1

MCProtocols == {OpenPGP, CMS}
MCKeys == {pgp1, cms1}
MCProtocolOf == [k \in Keys |-> IF k = cms1 THEN CMS ELSE OpenPGP]
=============================================================================
