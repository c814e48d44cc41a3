---------------------------- MODULE StateProofs ----------------------------
(***************************************************************************)
(* Proofs about the state interface: whatever representations a firmware   *)
(* sets and reads, as long as it respects Sound, reads are fresh.  The run *)
(* StateInService checks that the firmwares in service respect it.         *)
(***************************************************************************)
EXTENDS State, TLAPS

(* Only the origin of the firmware's own kind is ever defined, and one     *)
(* defined at boot stays.                                                  *)
OneFrame ==
  /\ nedInit => profile.origin = "ned"
  /\ utmInit => profile.origin = "utm"
  /\ profile.boot = "ned" => nedInit
  /\ profile.boot = "utm" => utmInit

(* The profile bounds what is marked and what is given.                    *)
InProfile ==
  \A q \in Quantities :
    status[q] \subseteq profile.marks[q] /\ given[q] \subseteq UNION profile.set[q]

IInv == TypeOK /\ OneFrame /\ InProfile /\ FreshReads

AllSound == \A p \in PROFILES : Sound(p)

-----------------------------------------------------------------------------
LEMMA QuantitiesAre == Quantities = {"pos", "speed", "accel", "att", "rate", "wind", "air"}
  BY DEF Quantities, Reps

LEMMA RepsAre == \A q \in Quantities : Reps[q] \subseteq AllReps
  BY DEF AllReps

(* The frame is the firmware's own or none yet.                            *)
LEMMA FrameIs ==
  ASSUME OneFrame
  PROVE  Frame \in {profile.origin, "none"}
  BY DEF OneFrame, Frame

(* The routes of a quantity without a frame do not depend on it.           *)
LEMMA RoutesUnframed ==
  ASSUME NEW q \in Quantities \ Framed, NEW r, NEW f, NEW g
  PROVE  Routes(q, r, f) = Routes(q, r, g)
  BY QuantitiesAre DEF Routes, Framed

LEMMA CarriesMore ==
  ASSUME NEW route, NEW x, NEW r, NEW f, Carries(route, x, r, "none")
  PROVE  Carries(route, x, r, f)
  BY DEF Carries

(* What the soundness of a firmware says of the branch that a getter       *)
(* takes: it marks and writes inside the quantity and the profile, and     *)
(* when the quantity is fresh it writes right values only.                 *)
LEMMA BranchTaken ==
  ASSUME AllSound, IInv, NEW q \in Quantities, NEW r \in profile.get[q],
         NEW i \in DOMAIN Routes(q, r, Frame), Taken(Routes(q, r, Frame), i, q)
  PROVE  LET route == Routes(q, r, Frame)[i] IN
         /\ Written(route, r) \subseteq profile.marks[q]
         /\ Marks(route, q, r) \subseteq {q} \X Written(route, r)
         /\ given[q] # {} /\ (q \in Framed => Frame # "none") =>
              Exact(route, q, r) = Written(route, r)
<1> DEFINE route == Routes(q, r, Frame)[i]
<1>1. Confined(profile, q) /\ Served(profile, q)
  BY DEF AllSound, Sound, IInv, TypeOK
<1>2. route.from \in status[q] /\ route.from \in profile.marks[q]
  BY DEF Taken, IInv, InProfile
<1>3. Frame \in {profile.origin, "none"}
  BY FrameIs DEF IInv
<1>4. route.via \subseteq profile.marks[q] /\ Marks(route, q, r) \subseteq {q} \X Written(route, r)
  BY <1>1, <1>2, <1>3 DEF Confined
<1>5. Written(route, r) \subseteq profile.marks[q]
  BY <1>1, <1>4 DEF Confined, Written
<1>6. ASSUME given[q] # {}, q \in Framed => Frame # "none"
      PROVE  Exact(route, q, r) = Written(route, r)
  <2>1. route.from \in right[q]
    BY <1>2, <1>6 DEF IInv, FreshReads
  <2>2. route.exact /\ \A x \in Written(route, r) : Carries(route, x, r, Frame)
    <3>1. CASE q \in Framed
      <4>1. Frame = profile.origin
        BY <3>1, <1>3, <1>6
      <4> QED
        BY <3>1, <4>1, <1>1, <1>2 DEF Served
    <3>2. CASE q \notin Framed
      <4>1. Routes(q, r, Frame) = Routes(q, r, "none")
        BY <3>2, RoutesUnframed
      <4>2. route.exact /\ \A x \in Written(route, r) : Carries(route, x, r, "none")
        BY <3>2, <4>1, <1>1, <1>2 DEF Served
      <4> QED
        BY <4>2, CarriesMore
    <3> QED
      BY <3>1, <3>2
  <2> QED
    BY <2>1, <2>2 DEF Exact
<1> QED
  BY <1>4, <1>5, <1>6

(* A getter of a quantity that is given finds a source.                    *)
LEMMA SourceFound ==
  ASSUME AllSound, IInv, NEW q \in Quantities, NEW r \in profile.get[q] \ status[q],
         given[q] # {}, q \in Framed => Frame # "none"
  PROVE  \E i \in DOMAIN Routes(q, r, Frame) : Routes(q, r, Frame)[i].from \in status[q]
<1>1. Served(profile, q)
  BY DEF AllSound, Sound, IInv, TypeOK
<1>2. PICK g \in given[q] : g \in status[q] /\ g \in (UNION profile.set[q]) \ {r}
  BY DEF IInv, TypeOK, InProfile
<1>3. CASE q \in Framed
  <2>1. Frame = profile.origin
    BY <1>3, FrameIs DEF IInv
  <2> QED
    BY <1>1, <1>2, <1>3, <2>1 DEF Served
<1>4. CASE q \notin Framed
  <2>1. Routes(q, r, Frame) = Routes(q, r, "none")
    BY <1>4, RoutesUnframed
  <2> QED
    BY <1>1, <1>2, <1>4, <2>1 DEF Served
<1> QED
  BY <1>3, <1>4

-----------------------------------------------------------------------------
LEMMA InitInv ==
  ASSUME AllSound, Init
  PROVE  IInv
<1>1. Sound(profile) /\ profile \in PROFILES
  BY DEF AllSound, Init
<1>2. \A q \in Quantities :
        status[q] = IF profile.boot = "utm" /\ q = "pos" THEN {"UTM_F"} ELSE {}
  BY DEF Init
<1>3. \A q \in Quantities : status[q] \subseteq UNION profile.set[q]
  BY <1>1, <1>2, Zenon DEF Sound
<1>4. \A q \in Quantities : UNION profile.set[q] \subseteq profile.marks[q]
                            /\ profile.marks[q] \subseteq Reps[q]
  BY <1>1 DEF Sound, Confined
<1>5. status \in [Quantities -> SUBSET AllReps]
  <2>1. \A q \in Quantities : status[q] \in SUBSET AllReps
    BY <1>3, <1>4, RepsAre
  <2>2. status = [q \in Quantities |-> status[q]]
    BY DEF Init
  <2> QED
    BY <2>1, <2>2
<1>6. TypeOK
  BY <1>1, <1>3, <1>4, <1>5 DEF Init, TypeOK
<1>7. OneFrame
  BY <1>1 DEF Init, OneFrame, Sound
<1> QED
  BY <1>3, <1>4, <1>6, <1>7 DEF Init, IInv, InProfile, FreshReads

LEMMA SetInv ==
  ASSUME AllSound, IInv, NEW q \in Quantities, NEW rs \in profile.set[q], Set(q, rs)
  PROVE  IInv'
<1>1. rs \subseteq profile.marks[q] /\ rs \subseteq Reps[q] /\ rs \subseteq UNION profile.set[q]
  BY DEF AllSound, Sound, Confined, IInv, TypeOK
<1>2. rs \in SUBSET AllReps
  BY <1>1, RepsAre
<1>3. TypeOK'
  BY <1>1, <1>2 DEF IInv, TypeOK, Set
<1>4. OneFrame'
  BY DEF IInv, OneFrame, Set
<1>5. InProfile'
  BY <1>1 DEF IInv, TypeOK, InProfile, Set
<1>6. FreshReads'
  <2> SUFFICES ASSUME NEW p \in Quantities, given'[p] # {}, p \in Framed => Frame' # "none"
               PROVE  status'[p] \subseteq right'[p]
    BY DEF FreshReads
  <2>1. CASE p = q
    BY <2>1 DEF Set, IInv, TypeOK
  <2>2. CASE p # q
    <3>1. Frame' = Frame /\ given'[p] = given[p] /\ status'[p] = status[p] /\ right'[p] = right[p]
      BY <2>2 DEF Set, IInv, TypeOK, Frame
    <3> QED
      BY <3>1 DEF IInv, FreshReads
  <2> QED
    BY <2>1, <2>2
<1> QED
  BY <1>3, <1>4, <1>5, <1>6 DEF IInv

(* Both kinds of getters leave what other quantities and frames are, and   *)
(* mark inside the profile.                                                *)
LEMMA GetInv ==
  ASSUME AllSound, IInv, NEW q \in Quantities, NEW r \in profile.get[q] \ status[q],
         NEW bits, NEW written, SetBits(bits),
         bits \subseteq {q} \X written, written \subseteq profile.marks[q],
         right' \in [Quantities -> SUBSET AllReps],
         \A p \in Quantities \ {q} : right'[p] = right[p],
         right'[q] \subseteq Reps[q],
         given[q] # {} /\ (q \in Framed => Frame # "none") =>
           right[q] \cup written \subseteq right'[q],
         UNCHANGED <<profile, nedInit, utmInit, given>>
  PROVE  IInv'
<1>1. written \subseteq Reps[q]
  BY DEF AllSound, Sound, Confined, IInv, TypeOK
<1>2. status' = [p \in Quantities |-> status[p] \cup {x \in Reps[p] : <<p, x>> \in bits}]
  BY DEF SetBits
<1>3. status[q] \subseteq status'[q] /\ status'[q] \subseteq status[q] \cup written
  BY <1>2
<1>4. \A p \in Quantities \ {q} : status'[p] = status[p]
  BY <1>2
<1>5. \A p \in Quantities : status'[p] \subseteq Reps[p]
  BY <1>2 DEF IInv, TypeOK
<1>6. status' \in [Quantities -> SUBSET AllReps]
  <2>1. \A p \in Quantities : status'[p] \in SUBSET AllReps
    BY <1>5, RepsAre
  <2> QED
    BY <1>2, <2>1
<1>7. TypeOK'
  <2>1. \A p \in Quantities : right'[p] \subseteq Reps[p]
    BY DEF IInv, TypeOK
  <2>2. \A p \in Quantities : given'[p] \subseteq status'[p]
    BY <1>3, <1>4 DEF IInv, TypeOK
  <2> QED
    BY <1>5, <1>6, <2>1, <2>2 DEF IInv, TypeOK
<1>8. OneFrame'
  BY DEF IInv, OneFrame
<1>9. InProfile'
  BY <1>3, <1>4 DEF IInv, InProfile
<1>10. FreshReads'
  <2> SUFFICES ASSUME NEW p \in Quantities, given[p] # {}, p \in Framed => Frame # "none"
               PROVE  status'[p] \subseteq right'[p]
    BY DEF FreshReads, Frame
  <2>1. status[p] \subseteq right[p]
    BY DEF IInv, FreshReads
  <2>2. CASE p = q
    BY <2>1, <2>2, <1>3
  <2>3. CASE p # q
    BY <2>1, <2>3, <1>4
  <2> QED
    BY <2>2, <2>3
<1> QED
  BY <1>7, <1>8, <1>9, <1>10 DEF IInv

LEMMA GetConvertedInv ==
  ASSUME AllSound, IInv, NEW q \in Quantities, NEW r \in profile.get[q], GetConverted(q, r)
  PROVE  IInv'
<1>1. PICK i \in DOMAIN Routes(q, r, Frame) :
        /\ Taken(Routes(q, r, Frame), i, q)
        /\ right' = [right EXCEPT ![q] = (@ \ Written(Routes(q, r, Frame)[i], r))
                                           \cup Exact(Routes(q, r, Frame)[i], q, r)]
        /\ SetBits(Marks(Routes(q, r, Frame)[i], q, r))
  BY DEF GetConverted
<1> DEFINE route == Routes(q, r, Frame)[i]
           written == Written(route, r)
<1>2. /\ written \subseteq profile.marks[q]
      /\ Marks(route, q, r) \subseteq {q} \X written
      /\ given[q] # {} /\ (q \in Framed => Frame # "none") => Exact(route, q, r) = written
  BY <1>1, BranchTaken
<1>3. profile.marks[q] \subseteq Reps[q] /\ Exact(route, q, r) \subseteq written
  BY DEF AllSound, Sound, Confined, IInv, TypeOK, Exact
<1>4. /\ \A p \in Quantities \ {q} : right'[p] = right[p]
      /\ right'[q] = (right[q] \ written) \cup Exact(route, q, r)
  BY <1>1 DEF IInv, TypeOK
<1>5. right'[q] \subseteq Reps[q]
  BY <1>2, <1>3, <1>4 DEF IInv, TypeOK
<1>6. right' \in [Quantities -> SUBSET AllReps]
  <2>1. (right[q] \ written) \cup Exact(route, q, r) \in SUBSET AllReps
    BY <1>4, <1>5, RepsAre
  <2> QED
    BY <1>1, <2>1 DEF IInv, TypeOK
<1>7. given[q] # {} /\ (q \in Framed => Frame # "none") => right[q] \cup written \subseteq right'[q]
  BY <1>2, <1>4
<1>8. r \in profile.get[q] \ status[q] /\ UNCHANGED <<profile, nedInit, utmInit, given>>
  BY DEF GetConverted
<1> HIDE DEF route, written
<1>9. SetBits(Marks(route, q, r))
  BY <1>1 DEF route
<1> QED
  BY <1>2, <1>4, <1>5, <1>6, <1>7, <1>8, <1>9, GetInv

LEMMA GetNothingInv ==
  ASSUME AllSound, IInv, NEW q \in Quantities, NEW r \in profile.get[q], GetNothing(q, r)
  PROVE  IInv'
<1>1. /\ r \in profile.get[q] \ status[q]
      /\ SetBits(ResultBits(q, r))
      /\ UNCHANGED <<profile, nedInit, utmInit, right, given>>
  BY DEF GetNothing
<1>2. ResultBits(q, r) \subseteq {q} \X {r} /\ {r} \subseteq profile.marks[q]
  BY DEF AllSound, Sound, Confined, IInv, TypeOK
<1>3. ~ (given[q] # {} /\ (q \in Framed => Frame # "none"))
  BY <1>1, SourceFound DEF GetNothing
<1>4. right' \in [Quantities -> SUBSET AllReps] /\ right'[q] \subseteq Reps[q]
  BY <1>1 DEF IInv, TypeOK
<1> QED
  BY <1>1, <1>2, <1>3, <1>4, GetInv

(* A new origin, whichever kind: what is left marked is left right.        *)
LEMMA OriginInv ==
  ASSUME AllSound, IInv,
         UNCHANGED profile, nedInit' \in BOOLEAN, utmInit' \in BOOLEAN, OneFrame',
         status' = ClearLocal(status), given' = ClearLocal(given),
         right' \in [Quantities -> SUBSET AllReps],
         \A q \in Quantities \ Framed : right'[q] = right[q],
         \A q \in Quantities \cap Framed :
           right'[q] \subseteq right[q] /\ right[q] \ InFrame \subseteq right'[q]
  PROVE  IInv'
<1>1. \A q \in Quantities :
        /\ status'[q] = IF q \in Framed THEN status[q] \ Local ELSE status[q]
        /\ given'[q] = IF q \in Framed THEN given[q] \ Local ELSE given[q]
  BY DEF ClearLocal
<1>2. TypeOK'
  <2>1. \A q \in Quantities : /\ status'[q] \subseteq status[q]
                              /\ given'[q] \subseteq given[q]
                              /\ right'[q] \subseteq right[q]
                              /\ given'[q] \subseteq status'[q]
    BY <1>1 DEF IInv, TypeOK
  <2>2. status' \in [Quantities -> SUBSET AllReps] /\ given' \in [Quantities -> SUBSET AllReps]
    BY <2>1 DEF IInv, TypeOK, ClearLocal
  <2>3. profile' \in PROFILES /\ nedInit' \in BOOLEAN /\ utmInit' \in BOOLEAN
    BY DEF IInv, TypeOK
  <2>4. \A q \in Quantities : /\ status'[q] \subseteq Reps[q]
                              /\ given'[q] \subseteq Reps[q]
                              /\ right'[q] \subseteq Reps[q]
    BY <2>1 DEF IInv, TypeOK
  <2> QED
    BY <2>1, <2>2, <2>3, <2>4 DEF TypeOK
<1>3. InProfile'
  BY <1>1 DEF IInv, InProfile
<1>4. FreshReads'
  <2> SUFFICES ASSUME NEW q \in Quantities, given'[q] # {}
               PROVE  status'[q] \subseteq right'[q]
    BY DEF FreshReads
  <2>1. CASE q \notin Framed
    BY <2>1, <1>1 DEF IInv, FreshReads
  <2>2. CASE q \in Framed
    <3>1. ~ \A rs \in profile.set[q] : rs \subseteq Local
      BY <2>2, <1>1 DEF IInv, InProfile
    <3>2. profile.boot = profile.origin /\ profile.marks[q] \cap Horizontal = {}
      BY <2>2, <3>1 DEF AllSound, Sound, SurvivesOrigin, IInv, TypeOK
    <3>3. Frame # "none"
      BY <3>2 DEF AllSound, Sound, IInv, TypeOK, OneFrame, Frame
    <3>4. status[q] \subseteq right[q] /\ status[q] \cap Horizontal = {}
      BY <3>2, <3>3, <2>2, <1>1 DEF IInv, FreshReads, InProfile
    <3> QED
      BY <2>2, <3>4, <1>1 DEF InFrame
  <2> QED
    BY <2>1, <2>2
<1> QED
  BY <1>2, <1>3, <1>4 DEF IInv

LEMMA SetLocalOriginInv ==
  ASSUME AllSound, IInv, SetLocalOrigin_i
  PROVE  IInv'
<1>1. OneFrame'
  BY DEF IInv, OneFrame, SetLocalOrigin_i
<1>2. right' \in [Quantities -> SUBSET AllReps]
  BY DEF IInv, TypeOK, SetLocalOrigin_i
<1> QED
  BY <1>1, <1>2, OriginInv DEF SetLocalOrigin_i, IInv, TypeOK

LEMMA SetLocalUtmOriginInv ==
  ASSUME AllSound, IInv, SetLocalUtmOrigin_f
  PROVE  IInv'
<1>1. OneFrame'
  BY DEF IInv, OneFrame, SetLocalUtmOrigin_f
<1>2. right' \in [Quantities -> SUBSET AllReps]
  BY DEF IInv, TypeOK, SetLocalUtmOrigin_f, ClearLocal
<1>3. \A q \in Quantities : right'[q] = IF q \in Framed THEN right[q] \ Local ELSE right[q]
  BY DEF SetLocalUtmOrigin_f, ClearLocal
<1>4. \A q \in Quantities \cap Framed :
        right'[q] \subseteq right[q] /\ right[q] \ InFrame \subseteq right'[q]
  BY <1>3 DEF InFrame
<1> QED
  BY <1>1, <1>2, <1>3, <1>4, OriginInv DEF SetLocalUtmOrigin_f, IInv, TypeOK

-----------------------------------------------------------------------------
(* The invariant: only the firmware's own frame is ever defined, marks and *)
(* gifts stay inside its profile, and what is marked is right.             *)
THEOREM StateInductive ==
  ASSUME AllSound
  PROVE  Spec => []IInv
<1>1. Init => IInv
  BY InitInv
<1>2. IInv /\ [Next]_vars => IInv'
  <2> SUFFICES ASSUME IInv, [Next]_vars
               PROVE  IInv'
    OBVIOUS
  <2>1. ASSUME NEW q \in Quantities, NEW rs \in profile.set[q], Set(q, rs)
        PROVE  IInv'
    BY <2>1, SetInv
  <2>2. ASSUME NEW q \in Quantities, NEW r \in profile.get[q], GetConverted(q, r)
        PROVE  IInv'
    BY <2>2, GetConvertedInv
  <2>3. ASSUME NEW q \in Quantities, NEW r \in profile.get[q], GetNothing(q, r)
        PROVE  IInv'
    BY <2>3, GetNothingInv
  <2>4. CASE SetLocalOrigin_i
    BY <2>4, SetLocalOriginInv
  <2>5. CASE SetLocalUtmOrigin_f
    BY <2>5, SetLocalUtmOriginInv
  <2>6. CASE UNCHANGED vars
    BY <2>6 DEF vars, IInv, TypeOK, OneFrame, InProfile, FreshReads, Frame
  <2> QED
    BY <2>1, <2>2, <2>3, <2>4, <2>5, <2>6 DEF Next
<1> QED
  BY <1>1, <1>2, PTL DEF Spec

(* In every firmware that respects Sound the status words and the values   *)
(* keep their types, and what was set and not cleared is marked.           *)
THEOREM StateTypeCorrect ==
  ASSUME AllSound
  PROVE  Spec => []TypeOK
<1>1. IInv => TypeOK
  BY DEF IInv
<1> QED
  BY <1>1, StateInductive, PTL

(* In every firmware that respects Sound, a read returns the value last    *)
(* set, whatever was read, set and re-referenced before.                   *)
THEOREM ReadsAreFresh ==
  ASSUME AllSound
  PROVE  Spec => []FreshReads
<1>1. IInv => FreshReads
  BY DEF IInv
<1> QED
  BY <1>1, StateInductive, PTL

-----------------------------------------------------------------------------
AllSteady == \A p \in PROFILES : Steady(p)

(* The branch that a getter takes writes nothing that is marked.           *)
LEMMA NothingOverwritten ==
  ASSUME AllSteady, IInv, NEW q \in Quantities, NEW r \in profile.get[q] \ status[q],
         NEW i \in DOMAIN Routes(q, r, Frame), Taken(Routes(q, r, Frame), i, q)
  PROVE  Written(Routes(q, r, Frame)[i], r) \cap status[q] = {}
<1> DEFINE routes == Routes(q, r, Frame)
<1>1. Frame \in {profile.origin, "none"} /\ Steady(profile)
  BY FrameIs DEF IInv, AllSteady, TypeOK
<1>2. routes[i].from \in profile.marks[q] /\ \A j \in DOMAIN routes :
        j < i => routes[j].from \notin status[q]
  BY DEF Taken, IInv, InProfile
<1>3. \A x \in routes[i].via : \E j \in DOMAIN routes : j < i /\ routes[j].from = x
  BY <1>1, <1>2 DEF Steady
<1>4. routes[i].via \cap status[q] = {}
  BY <1>2, <1>3
<1> QED
  BY <1>4 DEF Written

(* In every firmware that is sound and steady, what is marked and right    *)
(* stays right as long as it stays marked: no read of another              *)
(* representation, no other quantity and no new origin spoils it.          *)
THEOREM MarksAreKept ==
  ASSUME AllSound, AllSteady
  PROVE  Spec => MarkedStaysRight
<1> DEFINE Stays == \A q \in Quantities : status[q] \cap status'[q] \cap right[q] \subseteq right'[q]
<1>1. ASSUME IInv, [Next]_vars
      PROVE  Stays
  <2> SUFFICES ASSUME NEW p \in Quantities,
                      NEW x \in status[p], x \in status'[p], x \in right[p]
               PROVE  x \in right'[p]
    OBVIOUS
  <2> USE DEF IInv, TypeOK
  <2>1. ASSUME NEW q \in Quantities, NEW rs \in profile.set[q], Set(q, rs)
        PROVE  x \in right'[p]
    BY <1>1, <2>1 DEF Set
  <2>2. ASSUME NEW q \in Quantities, NEW r \in profile.get[q], GetConverted(q, r)
        PROVE  x \in right'[p]
    <3>1. r \in profile.get[q] \ status[q]
      BY <2>2 DEF GetConverted
    <3>2. PICK i \in DOMAIN Routes(q, r, Frame) :
            /\ Taken(Routes(q, r, Frame), i, q)
            /\ right' = [right EXCEPT ![q] = (@ \ Written(Routes(q, r, Frame)[i], r))
                                               \cup Exact(Routes(q, r, Frame)[i], q, r)]
      BY <2>2 DEF GetConverted
    <3>3. Written(Routes(q, r, Frame)[i], r) \cap status[q] = {}
      BY <1>1, <3>1, <3>2, NothingOverwritten
    <3> QED
      BY <1>1, <3>2, <3>3
  <2>3. ASSUME NEW q \in Quantities, NEW r \in profile.get[q], GetNothing(q, r)
        PROVE  x \in right'[p]
    BY <2>3 DEF GetNothing
  <2>4. CASE SetLocalOrigin_i
    <3>1. status'[p] = IF p \in Framed THEN status[p] \ Local ELSE status[p]
      BY <2>4 DEF SetLocalOrigin_i, ClearLocal
    <3>2. right'[p] = IF p \in Framed THEN right[p] \ InFrame ELSE right[p]
      BY <2>4 DEF SetLocalOrigin_i
    <3>3. p \in Framed => x \notin Horizontal
      <4>1. x \in profile.marks[p] /\ Steady(profile) /\ profile.origin = "ned"
        BY <1>1, <2>4 DEF InProfile, AllSteady, SetLocalOrigin_i
      <4> QED
        BY <4>1 DEF Steady
    <3> QED
      BY <3>1, <3>2, <3>3 DEF InFrame
  <2>5. CASE SetLocalUtmOrigin_f
    <3>1. /\ status'[p] = IF p \in Framed THEN status[p] \ Local ELSE status[p]
          /\ right'[p] = IF p \in Framed THEN right[p] \ Local ELSE right[p]
      BY <2>5 DEF SetLocalUtmOrigin_f, ClearLocal
    <3> QED
      BY <3>1
  <2>6. CASE UNCHANGED vars
    BY <2>6 DEF vars
  <2> QED
    BY <1>1, <2>1, <2>2, <2>3, <2>4, <2>5, <2>6 DEF Next
<1>2. IInv /\ [Next]_vars => [Stays]_vars
  BY <1>1
<1> QED
  BY <1>2, StateInductive, PTL DEF Spec, MarkedStaysRight
=============================================================================
