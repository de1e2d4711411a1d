---------------------------- MODULE MCOcmBootstrap ----------------------------
(***************************************************************************)
(* Instances of OcmBootstrap: two CRDs, awaited in another order than they *)
(* are applied in, and one or two controlplanes.                           *)
(***************************************************************************)
EXTENDS OcmBootstrap

MCbaseCRDs == <<"manifestworks", "managedclusters">>
MCocmCRDs == <<"managedclusters", "manifestworks">>
===============================================================================
