----------------------- MODULE MCAdvertisementImport -----------------------
(* Instances of AdvertisementImport for TLC. *)
EXTENDS AdvertisementImport
===========================================================================
