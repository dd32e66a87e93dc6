---------------------------- MODULE MCSQLStorage ----------------------------
(* A directory in a directory, a file in each, a virtual container that is *)
(* linked to an object, and one above it.                                  *)
EXTENDS SQLStorage, TLC

UpDef == "d1" :> Top @@ "d2" :> "d1" @@ "f1" :> "d1" @@ "f2" :> "d2"
         @@ "v1" :> Top @@ "v2" :> "v1"

(* Explored are the references without autoscan directories and the        *)
(* autoscan directories without references.                                *)
ScansOrReferences ==
  scan = <<>> \/ \A i \in DOMAIN row \ Roots : row[i].kind \in {"dir", "file"}
=============================================================================
