--------------------------- MODULE MCEventImport ----------------------------
(* Instances of EventImport: three rows in three files.                    *)
EXTENDS EventImport

CONSTANTS ann, ANN, bob, obrien, lee, m1, mail, cell, mx5, brz, red, str, stu, n, back, e1, e2

(* The same driver with and without a member number, with two cars.        *)
AnnWithNumber == "First Name" :> ann @@ "Last Name" :> lee @@ "Member #" :> m1 @@
                 "Email #1" :> mail @@ "Class" :> <<str>> @@ "Number" :> 7 @@
                 "Car Model" :> mx5 @@ "Home" :> cell
AnnByName     == "First Name" :> ANN @@ "Last Name" :> lee @@ "Member #" :> Empty @@
                 "Email #1" :> mail @@ "Class" :> <<stu, n>> @@ "Number" :> cell @@
                 "Car Model" :> brz @@ "Car Color" :> red
(* A name that ends the quotes, Ann's address, a class name that also has  *)
(* no subclass elsewhere and here one with a backslash, no model.          *)
OBrien        == "First Name" :> bob @@ "Last Name" :> obrien @@ "Email #1" :> mail @@
                 "Class" :> <<str, back>> @@ "Number" :> 9

MCFiles == {<<AnnWithNumber>>, <<AnnByName>>, <<AnnByName, OBrien>>}
MCOrganizationOf == e1 :> 1 @@ e2 :> 2
MCNumbers == 1..9
MCLikes == obrien :> {} @@ <<back>> :> {<<n>>} @@ ann :> {ann, ANN} @@ ANN :> {ann, ANN}

Symmetry == Permutations(Clients)
=============================================================================
