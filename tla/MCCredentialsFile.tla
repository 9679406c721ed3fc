-------------------------- MODULE MCCredentialsFile --------------------------
(***************************************************************************)
(* The credentials file for TLC: two profiles, the two keys s3-upload asks *)
(* for and two it does not.                                                *)
(***************************************************************************)
EXTENDS CredentialsFile

TwoSections == {"default", "other"}
FourKeys == {AccessKey, SecretKey, "s3", "region"}
DefaultProfile == "default"

===============================================================================
