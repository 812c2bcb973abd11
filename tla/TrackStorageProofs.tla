------------------------- MODULE TrackStorageProofs -------------------------
(***************************************************************************)
(* Theorems of TrackStorage, for any words, track ids, keys, base path and *)
(* contents.                                                               *)
(***************************************************************************)
EXTENDS TrackStorage, SequenceTheorems, WellFoundedInduction, TLAPS

-----------------------------------------------------------------------------
(***************************************************************************)
(* Induction over numbers, stated with a set in place of a predicate: the  *)
(* set of the numbers that have the property.                              *)
(***************************************************************************)
LEMMA LeastNumber ==
  ASSUME NEW T, T \subseteq Nat, T # {}
  PROVE  \E x \in T : \A y \in T : x <= y
<1> DEFINE R == OpToRel(<, Nat)
<1>1. IsWellFoundedOn(R, Nat)
  BY NatLessThanWellFounded, Zenon
<1> HIDE DEF R
<1>2. PICK x \in T : \A y \in T : ~ (<<y, x>> \in R)
  BY <1>1, WFMin, Zenon
<1>3. \A y, z \in Nat : y < z => <<y, z>> \in R
  BY DEF R, OpToRel
<1>4. \A y \in T : ~ (y < x)
  BY <1>2, <1>3, Zenon
<1>5. \A y, z \in Nat : ~ (y < z) => z <= y
  OBVIOUS
<1> QED BY <1>4, <1>5, Zenon

LEMMA NumbersInduction ==
  ASSUME NEW S, 0 \in S, \A n \in Nat : n \in S => n + 1 \in S
  PROVE  Nat \subseteq S
<1> SUFFICES ASSUME Nat \ S # {} PROVE FALSE
  OBVIOUS
<1>1. PICK x \in Nat \ S : \A y \in Nat \ S : x <= y
  BY LeastNumber
<1>2. x - 1 \in Nat
  BY <1>1
<1>3. x - 1 \in S
  BY <1>1, <1>2
<1>4. x - 1 + 1 \in S
  BY <1>2, <1>3
<1> QED BY <1>1, <1>4

LEMMA Appending ==
  ASSUME NEW a, NEW b, NEW c
  PROVE  /\ Append(<<>>, a) = <<a>>
         /\ Append(<<a>>, b) = <<a, b>>
         /\ Append(<<a, b>>, c) = <<a, b, c>>
<1> DEFINE S == {a, b, c}
<1>1. a \in S /\ b \in S /\ c \in S
  OBVIOUS
<1> HIDE DEF S
<1>2. ASSUME NEW s \in Seq(S)
      PROVE  /\ Append(s, a) = s \o <<a>>
             /\ Append(Append(s, a), b) = s \o <<a, b>>
             /\ Append(Append(Append(s, a), b), c) = s \o <<a, b, c>>
  <2>1. Append(s, a) = s \o <<a>>
    BY <1>1
  <2>2. Append(Append(s, a), b) = s \o <<a, b>>
    BY <1>1
  <2>3. Append(Append(Append(s, a), b), c) = s \o <<a, b, c>>
    BY <1>1
  <2> QED BY <2>1, <2>2, <2>3
<1>3. /\ <<>> \in Seq(S)
      /\ <<>> \o <<a>> = <<a>> /\ <<>> \o <<a, b>> = <<a, b>> /\ <<>> \o <<a, b, c>> = <<a, b, c>>
  BY <1>1
<1>4. /\ Append(<<>>, a) = <<a>>
      /\ Append(Append(<<>>, a), b) = <<a, b>>
      /\ Append(Append(Append(<<>>, a), b), c) = <<a, b, c>>
  BY <1>2, <1>3
<1> QED BY <1>4, Zenon

-----------------------------------------------------------------------------
(* path.Clean, one element at a time.                                      *)

Cleaned(done, x) ==
    CASE x \in {"", "."} -> done
      [] x = ".." -> SubSeq(done, 1, Len(done) - 1)
      [] OTHER -> Append(done, x)

LEMMA CleaningExists ==
  ASSUME NEW path, NEW n \in Nat
  PROVE  \E f : f = [i \in 0 .. n |-> IF i = 0 THEN <<>> ELSE Cleaned(f[i - 1], path[i])]
<1> DEFINE Is(f, k) == f = [i \in 0 .. k |-> IF i = 0 THEN <<>> ELSE Cleaned(f[i - 1], path[i])]
           S == {k \in Nat : \E f : Is(f, k)}
<1>1. 0 \in S
  <2> DEFINE f == [i \in 0 .. 0 |-> <<>>]
  <2>1. Is(f, 0)
    OBVIOUS
  <2> QED BY <2>1
<1>2. ASSUME NEW k \in Nat, k \in S PROVE k + 1 \in S
  <2>1. PICK f : Is(f, k)
    BY <1>2
  <2> DEFINE g == [i \in 0 .. k + 1 |-> IF i <= k THEN f[i] ELSE Cleaned(f[k], path[k + 1])]
  <2>2. \A i \in 0 .. k : g[i] = f[i]
    OBVIOUS
  <2>3. g[0] = <<>>
    BY <2>1, <2>2
  <2>4. ASSUME NEW i \in 1 .. k + 1 PROVE g[i] = Cleaned(g[i - 1], path[i])
    <3>1. CASE i <= k
      <4>1. g[i] = f[i] /\ g[i - 1] = f[i - 1]
        BY <2>2, <3>1
      <4>2. f[i] = Cleaned(f[i - 1], path[i])
        BY <2>1, <3>1
      <4> QED BY <4>1, <4>2
    <3>2. CASE i = k + 1
      <4>1. g[i - 1] = f[k] /\ g[i] = Cleaned(f[k], path[k + 1])
        BY <2>2, <3>2
      <4> QED BY <3>2, <4>1
    <3> QED BY <3>1, <3>2
  <2>5. Is(g, k + 1)
    <3> DEFINE h == [i \in 0 .. k + 1 |-> IF i = 0 THEN <<>> ELSE Cleaned(g[i - 1], path[i])]
    <3>1. \A i \in 0 .. k + 1 : g[i] = IF i = 0 THEN <<>> ELSE Cleaned(g[i - 1], path[i])
      <4> HIDE DEF g
      <4> QED BY <2>3, <2>4
    <3>2. g = [i \in 0 .. k + 1 |-> g[i]]
      OBVIOUS
    <3> HIDE DEF g
    <3> QED BY <3>1, <3>2
  <2>6. \E h : Is(h, k + 1)
    <3> HIDE DEF g, Is
    <3> QED BY <2>5
  <2>7. k + 1 \in Nat
    OBVIOUS
  <2> QED BY <2>6, <2>7, Zenon
<1> HIDE DEF S
<1>3. Nat \subseteq S
  BY <1>1, <1>2, NumbersInduction
<1> QED BY <1>3 DEF S

LEMMA CleanIsCleaning ==
  ASSUME NEW path, Len(path) \in Nat
  PROVE  \E f : /\ f[0] = <<>>
                /\ \A i \in 1 .. Len(path) : f[i] = Cleaned(f[i - 1], path[i])
                /\ Clean(path) = f[Len(path)]
<1> DEFINE Is(f) == f = [i \in 0 .. Len(path) |->
                            IF i = 0 THEN <<>> ELSE Cleaned(f[i - 1], path[i])]
           f == CHOOSE f : Is(f)
<1>1. Is(f)
  BY CleaningExists, Zenon
<1>2. Clean(path) = f[Len(path)]
  BY Zenon DEF Clean, Cleaned
<1>3. f[0] = <<>> /\ \A i \in 1 .. Len(path) : f[i] = Cleaned(f[i - 1], path[i])
  <2> HIDE DEF f
  <2> QED BY <1>1
<1> QED BY <1>2, <1>3, Zenon

\* What is cleaned has no empty elements and no dots left.
Plain == Element \ {"", ".", ".."}

LEMMA CleanedType ==
  ASSUME NEW done \in Seq(Plain), NEW x \in Element
  PROVE  Cleaned(done, x) \in Seq(Plain)
<1>1. CASE x \in {"", "."}
  BY <1>1 DEF Cleaned
<1>2. CASE x = ".."
  <2>1. SubSeq(done, 1, Len(done) - 1) \in Seq(Plain)
    OBVIOUS
  <2> QED BY <1>2, <2>1 DEF Cleaned
<1>3. CASE x \in Plain
  <2>1. Append(done, x) \in Seq(Plain)
    BY <1>3
  <2> QED BY <1>3, <2>1 DEF Cleaned, Plain
<1> QED BY <1>1, <1>2, <1>3 DEF Plain

\* The cleaning of a path longer by an element is that of the path, and then
\* of the element.
LEMMA CleanAppend ==
  ASSUME NEW path \in Seq(Element), NEW x \in Element
  PROVE  Clean(Append(path, x)) = Cleaned(Clean(path), x)
<1> DEFINE longer == Append(path, x)
           n == Len(path)
<1>0. /\ n \in Nat /\ Len(longer) = n + 1 /\ longer[n + 1] = x
      /\ \A i \in 1 .. n : longer[i] = path[i]
  OBVIOUS
<1> HIDE DEF longer
<1>1. PICK f : /\ f[0] = <<>>
               /\ \A i \in 1 .. n : f[i] = Cleaned(f[i - 1], path[i])
               /\ Clean(path) = f[n]
  BY <1>0, CleanIsCleaning
<1>2. PICK g : /\ g[0] = <<>>
               /\ \A i \in 1 .. n + 1 : g[i] = Cleaned(g[i - 1], longer[i])
               /\ Clean(longer) = g[n + 1]
  BY <1>0, CleanIsCleaning
<1> HIDE DEF n
<1> DEFINE S == {k \in Nat : k <= n => g[k] = f[k]}
<1>3. 0 \in S
  BY <1>1, <1>2
<1>4. ASSUME NEW k \in Nat, k \in S PROVE k + 1 \in S
  <2> SUFFICES ASSUME k + 1 <= n PROVE g[k + 1] = f[k + 1]
    OBVIOUS
  <2>1. k + 1 \in 1 .. n /\ k + 1 \in 1 .. n + 1 /\ k + 1 - 1 = k /\ k <= n
    BY <1>0
  <2>2. g[k] = f[k] /\ longer[k + 1] = path[k + 1]
    BY <1>0, <1>4, <2>1
  <2> QED BY <1>1, <1>2, <2>1, <2>2
<1>5. Nat \subseteq S
  <2> HIDE DEF S
  <2> QED BY <1>3, <1>4, NumbersInduction
<1>6. g[n] = f[n]
  BY <1>0, <1>5
<1>7. g[n + 1] = Cleaned(g[n], x)
  BY <1>0, <1>2
<1> QED BY <1>1, <1>2, <1>6, <1>7 DEF longer

LEMMA CleanEmpty == Clean(<<>>) = <<>>
<1>1. Len(<<>>) = 0 /\ Len(<<>>) \in Nat
  OBVIOUS
<1>2. PICK f : f[0] = <<>> /\ Clean(<<>>) = f[Len(<<>>)]
  BY <1>1, CleanIsCleaning, Zenon
<1> QED BY <1>1, <1>2

LEMMA CleanType ==
  ASSUME NEW path \in Seq(Element)
  PROVE  Clean(path) \in Seq(Plain)
<1> DEFINE n == Len(path)
<1>0. n \in Nat /\ \A i \in 1 .. n : path[i] \in Element
  OBVIOUS
<1>1. PICK f : /\ f[0] = <<>>
               /\ \A i \in 1 .. n : f[i] = Cleaned(f[i - 1], path[i])
               /\ Clean(path) = f[n]
  BY <1>0, CleanIsCleaning
<1> HIDE DEF n
<1> DEFINE S == {k \in Nat : k <= n => f[k] \in Seq(Plain)}
<1>2. 0 \in S
  <2>1. <<>> \in Seq(Plain)
    OBVIOUS
  <2> QED BY <1>1, <2>1
<1>3. ASSUME NEW k \in Nat, k \in S PROVE k + 1 \in S
  <2> SUFFICES ASSUME k + 1 <= n PROVE f[k + 1] \in Seq(Plain)
    OBVIOUS
  <2>1. k + 1 \in 1 .. n /\ k + 1 - 1 = k /\ k <= n
    BY <1>0
  <2>2. f[k] \in Seq(Plain) /\ path[k + 1] \in Element
    BY <1>0, <1>3, <2>1
  <2>3. f[k + 1] = Cleaned(f[k], path[k + 1])
    BY <1>1, <2>1
  <2> QED BY <2>2, <2>3, CleanedType
<1>4. Nat \subseteq S
  <2> HIDE DEF S
  <2> QED BY <1>2, <1>3, NumbersInduction
<1> QED BY <1>0, <1>1, <1>4

\* A path that goes on with plain elements only keeps them as they are.
LEMMA CleanPlain ==
  ASSUME NEW path \in Seq(Element), NEW x \in Plain
  PROVE  Clean(Append(path, x)) = Append(Clean(path), x)
BY CleanAppend DEF Cleaned, Plain

-----------------------------------------------------------------------------
(* Ids, keys and the objects under them.                                   *)

Audio == {ext \in Extensions : ValidateAudioExtension(ext)}

LEMMA PlainElements ==
  /\ Words \subseteq Plain /\ Audio \subseteq Plain /\ "raw" \in Plain
  /\ \A w \in Words : w # " "
BY StorageConstants DEF Plain, Element, Audio, ValidateAudioExtension

LEMMA CleanKey ==
  ASSUME NEW w \in Words, NEW ext \in Audio, NEW base \in Seq(Element)
  PROVE  /\ Clean(base \o <<"raw", w, ext>>) = Clean(base) \o <<"raw", w, ext>>
         /\ Clean(<<"raw", w, ext>>) = <<"raw", w, ext>>
         /\ Clean(<<"raw", w>>) = <<"raw", w>>
<1>1. w \in Plain /\ ext \in Plain /\ "raw" \in Plain /\ Plain \subseteq Element
  BY PlainElements DEF Plain
<1>2. ASSUME NEW b \in Seq(Element)
      PROVE  /\ Clean(b \o <<"raw", w>>) = Clean(b) \o <<"raw", w>>
             /\ Clean(b \o <<"raw", w, ext>>) = Clean(b) \o <<"raw", w, ext>>
  <2> DEFINE b1 == Append(b, "raw")
             b2 == Append(b1, w)
             b3 == Append(b2, ext)
  <2>1. b1 \in Seq(Element) /\ b2 \in Seq(Element)
    BY <1>1
  <2>2. b \o <<"raw", w>> = b2 /\ b \o <<"raw", w, ext>> = b3
    BY <1>1
  <2>3. /\ Clean(b1) = Append(Clean(b), "raw")
        /\ Clean(b2) = Append(Clean(b1), w)
        /\ Clean(b3) = Append(Clean(b2), ext)
    <3> HIDE DEF b1, b2
    <3>1. Clean(b3) = Append(Clean(b2), ext) /\ Clean(b2) = Append(Clean(b1), w)
      BY <1>1, <2>1, CleanPlain DEF b2
    <3>2. Clean(b1) = Append(Clean(b), "raw")
      BY <1>1, CleanPlain DEF b1
    <3> QED BY <3>1, <3>2
  <2>4. Clean(b) \in Seq(Plain)
    BY CleanType
  <2>5. /\ Append(Append(Clean(b), "raw"), w) = Clean(b) \o <<"raw", w>>
        /\ Append(Append(Append(Clean(b), "raw"), w), ext) = Clean(b) \o <<"raw", w, ext>>
    BY <1>1, <2>4
  <2> QED BY <2>2, <2>3, <2>5
<1>3. /\ <<>> \in Seq(Element)
      /\ <<>> \o <<"raw", w>> = <<"raw", w>>
      /\ <<>> \o <<"raw", w, ext>> = <<"raw", w, ext>>
  BY <1>1
<1> QED BY <1>2, <1>3, CleanEmpty

\* What there is to know of the key of an original.
LEMMA OriginalKeys ==
  ASSUME NEW id, NEW ext \in Extensions, NEW key \in OriginalKey(id, ext)
  PROVE  ext \in Audio /\ \E w \in Words : key = <<"raw", w, ext>>
<1> DEFINE e == IF ext = "" THEN ".bin" ELSE ext
<1>1. PICK w \in NormalizeSegment(id) : ValidateAudioExtension(e) /\ key = Clean(<<"raw", w, e>>)
  BY DEF OriginalKey
<1>2. e = ext
  BY <1>1 DEF ValidateAudioExtension
<1>3. w \in Words /\ ext \in Audio
  BY <1>1, <1>2 DEF NormalizeSegment, Audio
<1>4. <<>> \in Seq(Element)
  OBVIOUS
<1> QED BY <1>1, <1>2, <1>3, <1>4, CleanKey

LEMMA KeysAreSent ==
  ASSUME NEW w, NEW ext
  PROVE  TrimSlash(<<"raw", w, ext>>) = <<"raw", w, ext>>
BY DEF TrimSlash

\* Whatever string is given as a track id, an object is stored at
\* raw/{one allowed segment}/original{audio extension} or not at all.
THEOREM StorageTypeCorrect == Spec => []TypeOK
<1>1. Init => TypeOK
  BY DEF Init, TypeOK
<1>2. TypeOK /\ [Next]_bucket => TypeOK'
  <2> SUFFICES ASSUME TypeOK, [Next]_bucket PROVE TypeOK'
    OBVIOUS
  <2>1. ASSUME NEW id \in Ids, NEW ext \in Extensions, NEW body \in Bodies,
               PutOriginal(id, ext, body)
        PROVE  TypeOK'
    <3>1. PICK key \in OriginalKey(id, ext) : bucket' = PutObject(key, body)
      BY <2>1 DEF PutOriginal
    <3>2. PICK w \in Words : key = <<"raw", w, ext>>
      BY OriginalKeys
    <3>3. ValidateAudioExtension(ext)
      BY OriginalKeys DEF Audio
    <3>4. TrimSlash(key) = <<"raw", w, ext>>
      BY <3>2, KeysAreSent
    <3>5. \A o \in bucket' : o \in bucket \/ o = [key |-> <<"raw", w, ext>>, body |-> body]
      BY <3>1, <3>4 DEF PutObject
    <3> QED BY <3>3, <3>5 DEF TypeOK
  <2>2. ASSUME NEW key \in Keys, Delete(key) PROVE TypeOK'
    BY <2>2 DEF Delete, DeleteObject, TypeOK
  <2>3. CASE UNCHANGED bucket
    BY <2>3 DEF TypeOK
  <2> QED BY <2>1, <2>2, <2>3 DEF Next
<1> QED BY <1>1, <1>2, PTL DEF Spec

\* PutOriginal does not refuse a name that the upload form has accepted, and
\* it overwrites no object of another track.
THEOREM AcceptedNamesAlwaysHaveKeys == Spec => []AcceptedNamesHaveKeys
<1>1. AcceptedNamesHaveKeys
  <2> SUFFICES ASSUME NEW ext \in Extensions, IsSupportedAudio(ext),
                      NEW w \in Words, NEW body \in Bodies
               PROVE  \E key \in OriginalKey(<<w>>, ext) :
                         \A o \in bucket : o.key[2] # w => o \in PutObject(key, body)
    BY DEF AcceptedNamesHaveKeys
  <2> DEFINE key == <<"raw", w, ext>>
  <2>1. ext \in Audio /\ ext # ""
    BY DEF IsSupportedAudio, SupportedUploads, Audio, ValidateAudioExtension
  <2>2. w \in NormalizeSegment(<<w>>)
    <3>1. TrimSpace(<<w>>) = <<w>>
      <4>1. DOMAIN <<w>> = 1 .. 1 /\ \A i \in 1 .. 1 : <<w>>[i] = w
        OBVIOUS
      <4>2. TrimSpace(<<w>>) = [i \in 1 .. 1 |-> w]
        BY <4>1, PlainElements, Zenon DEF TrimSpace
      <4>3. [i \in 1 .. 1 |-> w] = <<w>>
        OBVIOUS
      <4> QED BY <4>2, <4>3
    <3>2. Clean(<<w>>) = <<w>>
      <4>1. <<>> \in Seq(Element) /\ w \in Plain
        <5>1. <<>> \in Seq(Element)
          OBVIOUS
        <5> QED BY <5>1, PlainElements
      <4>2. Append(<<>>, w) = <<w>>
        BY Appending
      <4> QED BY <4>1, <4>2, CleanPlain, CleanEmpty
    <3> QED BY <3>1, <3>2 DEF NormalizeSegment
  <2>3. Clean(key) = key
    <3>1. <<>> \in Seq(Element)
      OBVIOUS
    <3> QED BY <2>1, <3>1, CleanKey
  <2>4. key \in OriginalKey(<<w>>, ext)
    BY <2>1, <2>2, <2>3 DEF OriginalKey, Audio
  <2>5. \A o \in bucket : o.key[2] # w => o \in PutObject(key, body)
    <3>1. TrimSlash(key) = key /\ key[2] = w
      BY KeysAreSent
    <3> QED BY <3>1 DEF PutObject
  <2> QED BY <2>4, <2>5
<1> QED BY <1>1, PTL

\* Where a key meets an object, the public URL and every presigned link made
\* of that key lead to this object, however the key and the base URL are
\* written.
THEOREM KeysAlwaysAgree == Spec => []KeysAgree
<1>1. TypeOK => KeysAgree
  <2> SUFFICES ASSUME TypeOK, NEW key \in Keys, NEW o \in Get(key)
               PROVE  /\ PublicObjectURL(key) = Clean(BasePath) \o o.key
                      /\ PresignUpload(key) = {o.key} /\ PresignDownload(key) = {o.key}
    BY DEF KeysAgree
  <2>1. o \in bucket /\ o.key = TrimSlash(key) /\ ValidKey(key)
    BY DEF Get, GetObject
  <2>2. PICK w \in Words, ext \in Extensions :
          ValidateAudioExtension(ext) /\ o.key = <<"raw", w, ext>>
    BY <2>1 DEF TypeOK
  <2>3. ext \in Audio /\ BasePath \in Seq(Element) /\ key \in Seq(Element)
    BY <2>2, StorageConstants DEF Audio
  <2>4. Clean(key) = o.key
    <3>1. CASE key = o.key
      BY <2>2, <2>3, <3>1, CleanKey
    <3>2. CASE key[1] = "" /\ Len(key) > 1 /\ Tail(key) = o.key
      <4>1. Len(Tail(key)) = Len(key) - 1 /\ \A i \in 1 .. Len(Tail(key)) : Tail(key)[i] = key[i + 1]
        <5>1. key # <<>>
          BY StorageConstants
        <5> QED BY <2>3, <5>1, HeadTailProperties
      <4>2. Len(Tail(key)) = 3 /\ Tail(key)[1] = "raw" /\ Tail(key)[2] = w /\ Tail(key)[3] = ext
        <5>1. LET k == <<"raw", w, ext>> IN Len(k) = 3 /\ k[1] = "raw" /\ k[2] = w /\ k[3] = ext
          OBVIOUS
        <5> QED BY <2>2, <3>2, <5>1, Zenon
      <4>3. Len(key) = 4 /\ key[2] = "raw" /\ key[3] = w /\ key[4] = ext
        BY <2>3, <4>1, <4>2
      <4>4. PICK f : /\ f[0] = <<>>
                     /\ \A i \in 1 .. Len(key) : f[i] = Cleaned(f[i - 1], key[i])
                     /\ Clean(key) = f[Len(key)]
        BY <4>3, CleanIsCleaning
      <4>5. /\ f[1] = Cleaned(f[0], "") /\ f[2] = Cleaned(f[1], "raw")
            /\ f[3] = Cleaned(f[2], w) /\ f[4] = Cleaned(f[3], ext) /\ Clean(key) = f[4]
        <5>1. /\ f[1] = Cleaned(f[1 - 1], key[1]) /\ f[2] = Cleaned(f[2 - 1], key[2])
              /\ f[3] = Cleaned(f[3 - 1], key[3]) /\ f[4] = Cleaned(f[4 - 1], key[4])
          BY <4>3, <4>4
        <5>2. 1 - 1 = 0 /\ 2 - 1 = 1 /\ 3 - 1 = 2 /\ 4 - 1 = 3
          OBVIOUS
        <5> QED BY <3>2, <4>3, <4>4, <5>1, <5>2, Zenon
      <4>6. /\ f[1] = <<>> /\ f[2] = Append(f[1], "raw")
            /\ f[3] = Append(f[2], w) /\ f[4] = Append(f[3], ext)
        BY <2>2, <2>3, <4>4, <4>5, PlainElements DEF Cleaned, Plain
      <4> QED BY <2>2, <4>5, <4>6, Appending, Zenon
    <3> QED BY <2>1, <3>1, <3>2 DEF TrimSlash
  <2>5. PublicObjectURL(key) = Clean(BasePath) \o o.key
    BY <2>2, <2>3, <2>4, CleanKey DEF PublicObjectURL, BuildPublicObjectURL
  <2>6. PresignUpload(key) = {o.key} /\ PresignDownload(key) = {o.key}
    BY <2>1 DEF PresignUpload, PresignDownload, PresignPutURL, PresignGetURL
  <2> QED BY <2>5, <2>6
<1> QED BY <1>1, StorageTypeCorrect, PTL

\* A listing shows objects of its track only, and all of them unless they are
\* more than the maximum.
THEOREM ListRawIsAlwaysOfItsTrack == Spec => []ListRawIsOfItsTrack
<1>1. TypeOK => ListRawIsOfItsTrack
  <2> SUFFICES ASSUME TypeOK, NEW id \in Ids, NEW maxKeys \in 0 .. 2,
                      NEW page \in ListRaw(id, maxKeys)
               PROVE  LET own == {o \in bucket : o.key[2] \in NormalizeSegment(id)}
                          max == IF maxKeys = 0 THEN DefaultKeys ELSE maxKeys
                      IN /\ page \subseteq own
                         /\ page = own \/ Cardinality(page) = max
    BY DEF ListRawIsOfItsTrack
  <2>1. PICK w \in NormalizeSegment(id) :
          page \in ListObjects(Append(Clean(<<"raw", w>>), ""), maxKeys)
    BY DEF ListRaw
  <2>2. w \in Words /\ \A v \in NormalizeSegment(id) : v = w
    BY <2>1 DEF NormalizeSegment
  <2>3. Clean(<<"raw", w>>) = <<"raw", w>>
    <3>1. "raw" \in Plain /\ w \in Plain /\ "raw" \in Element
      BY <2>2, PlainElements DEF Plain
    <3>3. <<>> \in Seq(Element) /\ <<"raw">> \in Seq(Element)
      BY <3>1
    <3>2. Append(<<>>, "raw") = <<"raw">> /\ Append(<<"raw">>, w) = <<"raw", w>>
      BY Appending
    <3> QED BY <3>1, <3>2, <3>3, CleanPlain, CleanEmpty
  <2> DEFINE prefix == <<"raw", w, "">>
  <2>4. Append(Clean(<<"raw", w>>), "") = prefix /\ TrimSlash(prefix) = prefix
    BY <2>3, KeysAreSent, Appending
  <2>5. ASSUME NEW o \in bucket PROVE HasPrefix(o.key, prefix) <=> o.key[2] = w
    <3>1. PICK v \in Words, ext \in Extensions : o.key = <<"raw", v, ext>>
      BY DEF TypeOK
    <3>2. /\ Len(o.key) = 3 /\ o.key[1] = "raw"
          /\ Len(prefix) = 3 /\ prefix[1] = "raw" /\ prefix[2] = w /\ prefix[3] = ""
      BY <3>1
    <3>3. 1 .. Len(prefix) - 1 = {1, 2} /\ Len(o.key) >= Len(prefix)
      BY <3>2
    <3> QED BY <3>2, <3>3, Zenon DEF HasPrefix
  <2> DEFINE own == {o \in bucket : o.key[2] \in NormalizeSegment(id)}
             max == IF maxKeys = 0 THEN DefaultKeys ELSE maxKeys
  <2>6. {o \in bucket : HasPrefix(o.key, TrimSlash(prefix))} = own
    BY <2>1, <2>2, <2>4, <2>5
  <2>7. maxKeys <= 0 <=> maxKeys = 0
    OBVIOUS
  <2>8. page \subseteq own /\ (page = own \/ Cardinality(page) = max)
    BY <2>1, <2>4, <2>6, <2>7, Zenon DEF ListObjects
  <2> QED BY <2>8
<1> QED BY <1>1, StorageTypeCorrect, PTL

=============================================================================
