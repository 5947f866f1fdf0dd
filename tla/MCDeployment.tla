---------------------------- MODULE MCDeployment ----------------------------
(***************************************************************************)
(* An instance of Deployment: two starts of the API, two migrations.       *)
(***************************************************************************)
EXTENDS Deployment

CONSTANTS s1, s2, original, edited, q1, oldSecret, newSecret, admin, other

MCFirstEnv == [secret |-> oldSecret, email |-> admin]

=============================================================================
