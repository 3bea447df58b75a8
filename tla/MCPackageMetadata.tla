-------------------------- MODULE MCPackageMetadata --------------------------
EXTENDS PackageMetadata

MCContent == [p \in Packages |-> IF p \in {"fix", "other"} THEN "c2" ELSE "c1"]

MCTitle == [p \in Packages |-> IF p \in {"fix", "other"} THEN "t2" ELSE "t1"]

MCPublisher == [t \in {"t1", "t2"} |-> IF t = "t1" THEN "studio" ELSE None]
=============================================================================
