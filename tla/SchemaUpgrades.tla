--------------------------- MODULE SchemaUpgrades ---------------------------
(***************************************************************************)
(* What the migrations promise, whatever their sessions do and whatever    *)
(* schema they find: it is taken to that of a built image that has all it  *)
(* had, in one step, and never changes otherwise; and an API serves from a *)
(* step on at which the schema has all the files of its image.             *)
(***************************************************************************)
CONSTANTS Versions, Contents, Missing

VARIABLES
  built,    \* the images there are: each the content of every version
  schema,   \* the migrations that are part of the schema, as they were applied
  serving   \* the images that some API serves

upgradeVars == <<built, schema, serving>>

\* Every file of the one is in the other, as it is.
Within(files, others) == \A v \in Versions : files[v] # Missing => others[v] = files[v]

Init ==
  /\ built = {} /\ serving = {}
  /\ schema \in [Versions -> Contents \cup {Missing}]

Build ==
  /\ \E files \in [Versions -> Contents \cup {Missing}] : built' = built \cup {files}
  /\ UNCHANGED <<schema, serving>>

\* The schema becomes that of the image, or has all of it already.
Upgrade(files) ==
  /\ \/ schema' = schema /\ Within(files, schema)
     \/ schema' = files /\ Within(schema, files)
  /\ serving' \in {serving, serving \cup {files}}
  /\ UNCHANGED built

Stop ==
  /\ serving' \subseteq serving
  /\ UNCHANGED <<built, schema>>

Next == Build \/ Stop \/ \E files \in built : Upgrade(files)

Spec == Init /\ [][Next]_upgradeVars

=============================================================================
