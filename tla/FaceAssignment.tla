---------------------------- MODULE FaceAssignment ----------------------------
(***************************************************************************)
(* Which face of a frame belongs to which person track                     *)
(* (core/association.py): the Hungarian method on the costs of the pairs   *)
(* whose face lies where the track's head should be, and then, for tracks  *)
(* that were made up from a face, the link back to a face they overlap.    *)
(*                                                                         *)
(* The geometry is an input: for each pair its cost, in hundredths, or Far *)
(* when the head gate rejects it.  Tracks and faces are numbered; the      *)
(* method has a row for each of the fewer and a column for each of the     *)
(* more of them.                                                           *)
(***************************************************************************)
EXTENDS Integers, FiniteSetsExt, Functions

CONSTANTS Frame,   \* what frames show: [tracks, faces, cost]
          Lock,    \* how well a track is known: "none", "locked", "critical"
          MaxCost  \* max_cost, 75

FarCost == 10000000
Infinity == 3 * FarCost

ASSUME FaceAssumption ==
  /\ \A f \in Frame : /\ {f.tracks, f.faces} \subseteq Nat \ {0}
                      /\ f.cost \in [(1..f.tracks) \X (1..f.faces) -> 0..FarCost]
  /\ Lock \subseteq {"none", "locked", "critical"} /\ MaxCost \in Nat

VARIABLES
  faFrame,  \* the numbers of tracks and faces and the cost of each pair, or Far
  faLock,   \* how each track is known
  faStep,   \* where the method is
  faRow,    \* i: the row that is being added
  faU, faV, \* u, v: the potentials of rows and columns
  faP,      \* p: the row each column has, 0 for none
  faLinks,  \* links: the column before each column on the path
  faMins,   \* mins
  faSeen,   \* visited
  faMark,   \* <<marked_i, marked_j>>
  faGiven   \* assignments: <<track, face>>

faceVars == <<faFrame, faLock, faStep, faRow, faU, faV, faP, faLinks, faMins, faSeen,
              faMark, faGiven>>
inputVars == <<faFrame, faLock>>

Tracks == 1..faFrame.tracks
Faces == 1..faFrame.faces
Transposed == faFrame.tracks > faFrame.faces
Rows == IF Transposed THEN Faces ELSE Tracks
Columns == IF Transposed THEN Tracks ELSE Faces

FaceTypeOK ==
  /\ faFrame \in Frame /\ faLock \in [Tracks -> Lock]
  /\ faStep \in {"row", "scan", "augment", "link", "done"}
  /\ faRow \in {0} \cup Rows
  /\ faU \in [Rows -> Int] /\ faV \in [Columns -> Int]
  /\ faP \in [Columns -> {0} \cup Rows] /\ faLinks \in [Columns -> {0} \cup Columns]
  /\ faMins \in [Columns -> Int] /\ faSeen \subseteq Columns
  /\ faMark \in ({0} \cup Rows) \X ({0} \cup Columns)
  /\ faGiven \subseteq Tracks \X Faces

FaceInit ==
  /\ faFrame \in Frame /\ faLock \in [Tracks -> Lock]
  /\ faStep = "row" /\ faRow = 0
  /\ faU = [i \in Rows |-> 0] /\ faV = [j \in Columns |-> 0]
  /\ faP = [j \in Columns |-> 0] /\ faLinks = [j \in Columns |-> 0]
  /\ faMins = [j \in Columns |-> Infinity] /\ faSeen = {}
  /\ faMark = <<0, 0>> /\ faGiven = {}
-----------------------------------------------------------------------------
(* A known track's gated faces cost less: a bystander does not get them on  *)
(* a marginal difference.                                                   *)
Bonus(t) == CASE faLock[t] = "critical" -> 30 [] faLock[t] = "locked" -> 18 [] OTHER -> 0

PairCost(t, f) ==
  LET cost == faFrame.cost[<<t, f>>] IN IF cost = FarCost THEN FarCost ELSE cost - Bonus(t)

CostAt(i, j) == IF Transposed THEN PairCost(j, i) ELSE PairCost(i, j)

(* The next row starts a path; with none left the cheap pairs are given.    *)
(* A single pair needs no method.                                           *)
NextRow ==
  /\ faStep = "row" /\ faRow + 1 \in Rows
  /\ faRow' = faRow + 1
  /\ IF faFrame.tracks = 1 /\ faFrame.faces = 1
     THEN /\ faStep' = "row" /\ faP' = [j \in Columns |-> 1]
          /\ UNCHANGED <<faMark, faLinks, faMins, faSeen>>
     ELSE /\ faStep' = "scan" /\ faMark' = <<faRow', 0>>
          /\ faLinks' = [j \in Columns |-> 0]
          /\ faMins' = [j \in Columns |-> Infinity] /\ faSeen' = {}
          /\ UNCHANGED faP
  /\ UNCHANGED <<inputVars, faU, faV, faGiven>>

(* Mutation: the columns on the path keep their potential. *)
Lowered_not(delta) == faV

Lowered(delta) == [j \in Columns |-> IF j \in faSeen THEN faV[j] - delta ELSE faV[j]]

(* One turn of the inner loop: from the marked row to the nearest column    *)
(* that is not on the path yet.                                             *)
Scan ==
  /\ faStep = "scan"
  /\ LET new == Columns \ faSeen
         through(j) == CostAt(faMark[1], j) - faU[faMark[1]] - faV[j]
         mins == [j \in Columns |-> IF j \in new /\ through(j) < faMins[j] THEN through(j)
                                    ELSE faMins[j]]
         delta == Min({mins[j] : j \in new})
         next == Min({j \in new : mins[j] = delta})
         raised == {faP[j] : j \in faSeen} \cup {faRow}
     IN  /\ faLinks' = [j \in Columns |-> IF j \in new /\ through(j) < faMins[j] THEN faMark[2]
                                          ELSE faLinks[j]]
         /\ faMins' = [j \in Columns |-> IF j \in new THEN mins[j] - delta ELSE mins[j]]
         /\ faU' = [i \in Rows |-> IF i \in raised THEN faU[i] + delta ELSE faU[i]]
         /\ faV' = Lowered(delta)
         /\ faSeen' = faSeen \cup {next}
         /\ faMark' = <<faP[next], next>>
         /\ faStep' = IF faP[next] = 0 THEN "augment" ELSE "scan"
  /\ UNCHANGED <<inputVars, faRow, faP, faGiven>>

(* Back along the path: each column takes the row of the one before it. *)
Augment ==
  /\ faStep = "augment"
  /\ LET j == faMark[2]
         before == faLinks[j]
     IN  /\ faP' = [faP EXCEPT ![j] = IF before = 0 THEN faRow ELSE faP[before]]
         /\ faMark' = <<faMark[1], before>>
         /\ faStep' = IF before = 0 THEN "row" ELSE "augment"
  /\ UNCHANGED <<inputVars, faRow, faU, faV, faLinks, faMins, faSeen, faGiven>>

Paired == {<<faP[j], j>> : j \in {j \in Columns : faP[j] # 0}}
AsTracks(pairs) == IF Transposed THEN {<<q[2], q[1]>> : q \in pairs} ELSE pairs

Give ==
  /\ faStep = "row" /\ faRow + 1 \notin Rows
  /\ faGiven' = {q \in AsTracks(Paired) : PairCost(q[1], q[2]) <= MaxCost}
  /\ faStep' = "link"
  /\ UNCHANGED <<inputVars, faRow, faU, faV, faP, faLinks, faMins, faSeen, faMark>>

(* link_synthetic_tracks and setdefault: of the tracks made up from a face, *)
(* in order, each is linked to the first good face it touches that touches  *)
(* no real person and is not linked yet; a link counts if the track has no  *)
(* face.  A face in a track's head gate touches it.                         *)
Links(synthetic, touch, passed) ==
  LET free == {f \in passed : \A t \in Tracks \ synthetic : <<t, f>> \notin touch}
      Linked(links, t) ==
        LET faces == {f \in free : <<t, f>> \in touch /\ \A q \in links : q[2] # f}
        IN  IF faces = {} THEN links ELSE links \cup {<<t, Min(faces)>>}
      upto[t \in 0..faFrame.tracks] ==
        IF t = 0 THEN {} ELSE IF t \in synthetic THEN Linked(upto[t - 1], t) ELSE upto[t - 1]
  IN  upto[faFrame.tracks]

Gated == {q \in Tracks \X Faces : faFrame.cost[q] # FarCost}

LinkSynthetic(synthetic, touch, passed) ==
  /\ faStep = "link"
  /\ faGiven' = faGiven \cup {q \in Tracks \X Faces : q \in Links(synthetic, touch, passed)
                                                      /\ \A r \in faGiven : r[1] # q[1]}
  /\ faStep' = "done"
  /\ UNCHANGED <<inputVars, faRow, faU, faV, faP, faLinks, faMins, faSeen, faMark>>

FaceNext ==
  \/ NextRow \/ Scan \/ Augment \/ Give
  \/ \E synthetic \in SUBSET Tracks, more \in SUBSET ((Tracks \X Faces) \ Gated),
        passed \in SUBSET Faces : LinkSynthetic(synthetic, Gated \cup more, passed)

FaceSpec == FaceInit /\ [][FaceNext]_faceVars
-----------------------------------------------------------------------------
(* "Finds minimum weight bipartite matching for any rectangular cost        *)
(* matrix" (core/association.py:23): when every row was added, each has one *)
(* column, its own, and no other choice of columns costs less.              *)
Matchings == {m \in [Rows -> Columns] : IsInjective(m)}
Total(m) == SumFunctionOnSet([i \in Rows |-> CostAt(i, m[i])], Rows)

AssignmentIsCheapest ==
  faStep \in {"link", "done"} =>
    \E m \in Matchings : /\ Paired = {<<i, m[i]>> : i \in Rows}
                         /\ \A other \in Matchings : Total(m) <= Total(other)
=============================================================================
