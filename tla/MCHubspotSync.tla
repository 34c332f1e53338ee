--------------------------- MODULE MCHubspotSync ---------------------------
(***************************************************************************)
(* HubspotSync on the contacts 1..MaxContact.                              *)
(***************************************************************************)
EXTENDS HubspotSync

CONSTANT MaxContact

Contacts == 1..MaxContact
=============================================================================
