---------------------------- MODULE TrackStorage ----------------------------
(***************************************************************************)
(* The objects of core-api: usecases/track_storage.go over storage/s3.go.  *)
(* A string that names a place (a track id, a key, a prefix) is the        *)
(* sequence of its elements between slashes: "" is <<"">> and "/a" is      *)
(* <<"", "a">>.  What a function returns beside an error is a set: empty   *)
(* with the error, else the singleton of the result.  The file name of an  *)
(* original, "original.mp3", is its extension.                             *)
(***************************************************************************)
EXTENDS Integers, Sequences, FiniteSets

CONSTANTS
    Words,       \* elements of letters, digits, '_', '-' and '.', without
                 \* "." and ".."
    OtherWords,  \* elements with a character that is not allowed
    Longer,      \* the pairs <<w, v>> of words such that w begins with v
    Ids,         \* what may be given as a track id
    Keys,        \* what may be given as a key
    Extensions,  \* what filepath.Ext may return, in lower case
    BasePath,    \* the path of S3_PUBLIC_BASE_URL
    Bodies,      \* the contents of an object
    DefaultKeys  \* the objects of a listing that names no maximum (100)

Element == Words \cup OtherWords \cup Extensions \cup {"", ".", "..", " "}

ASSUME StorageConstants ==
    /\ {"", ".", "..", " "} \cap (Words \cup OtherWords) = {}
    /\ Words \cap OtherWords = {}
    /\ Ids \cup Keys \cup {BasePath} \subseteq Seq(Element) \ {<<>>}
    /\ DefaultKeys \in Nat \ {0}
    /\ "raw" \in Words

VARIABLE bucket  \* the objects under raw/

(* Paths. *)

\* strings.TrimSpace, where a blank is an element of its own.
TrimSpace(path) ==
    [i \in DOMAIN path |-> IF i \in {1, Len(path)} /\ path[i] = " " THEN "" ELSE path[i]]

\* path.Clean of a path that starts at the root, without its first slash.
Clean(path) ==
    LET upTo[i \in 0 .. Len(path)] ==
            IF i = 0 THEN <<>>
            ELSE LET done == upTo[i - 1]
                 IN CASE path[i] \in {"", "."} -> done
                      [] path[i] = ".." -> SubSeq(done, 1, Len(done) - 1)
                      [] OTHER -> Append(done, path[i])
    IN upTo[Len(path)]

TrimSlash(path) == IF Len(path) > 1 /\ path[1] = "" THEN Tail(path) ELSE path

\* Mutant: the expression ^[a-zA-Z0-9._-]+$ is taken to be enough.
MatchSegment(value) ==
    LET p == TrimSpace(value)
    IN IF Len(p) = 1 THEN {w \in {p[1]} : w \in Words \cup {".", ".."}} ELSE {}

NormalizeSegment(value) ==
    LET p == Clean(TrimSpace(value))
    IN IF Len(p) = 1 THEN {w \in {p[1]} : w \in Words} ELSE {}

ValidKey(key) == Clean(key) \notin {<<>>, <<" ">>}

(* File names: their extension, and whether the name is more than blank. *)

SupportedUploads == {".mp3", ".flac", ".wav"}

IsSupportedAudio(ext) == ext \in SupportedUploads

\* Mutant: a format of the upload form is missing here.
ValidateWithoutWav(ext) == ext \in {".mp3", ".flac", ".aac", ".m4a", ".ogg"}

ValidateAudioExtension(ext) ==
    ext \in {".mp3", ".flac", ".wav", ".aac", ".m4a", ".ogg"}

\* A name without extension counts as ".bin" and is refused.
OriginalKey(id, ext) ==
    LET e == IF ext = "" THEN ".bin" ELSE ext
    IN {Clean(<<"raw", segment, e>>) :
            segment \in {w \in NormalizeSegment(id) : ValidateAudioExtension(e)}}

(* The calls to S3, which is external: a map from keys to contents. *)

HasPrefix(key, prefix) ==
    LET n == Len(prefix)
        Begins(w, v) == v = "" \/ w = v \/ <<w, v>> \in Longer
    IN /\ Len(key) >= n /\ Begins(key[n], prefix[n])
       /\ \A i \in 1 .. n - 1 : key[i] = prefix[i]

PutObject(key, body) ==
    {o \in bucket : o.key # TrimSlash(key)} \cup {[key |-> TrimSlash(key), body |-> body]}

GetObject(key) == {o \in bucket : o.key = TrimSlash(key)}

DeleteObject(key) == bucket \ GetObject(key)

\* The first page S3 may answer with; nothing asks for another.
ListObjects(prefix, maxKeys) ==
    LET max == IF maxKeys <= 0 THEN DefaultKeys ELSE maxKeys
        found == {o \in bucket : HasPrefix(o.key, TrimSlash(prefix))}
    IN {page \in SUBSET found :
          \/ page = found /\ Cardinality(found) <= max
          \/ Cardinality(page) = max}

\* A link is signed for the key as it is sent.
PresignGetURL(key) == TrimSlash(key)

\* Mutant: the slash before the key is kept.
PresignAsGiven(key) == key

PresignPutURL(key) == TrimSlash(key)

BuildPublicObjectURL(objectKey) == Clean(BasePath \o objectKey)

PublicObjectURL(key) == BuildPublicObjectURL(Clean(key))

(* The methods of TrackStorage. *)

Get(key) == {o \in GetObject(key) : ValidKey(key)}

PresignUpload(key) == {k \in {PresignPutURL(key)} : ValidKey(key)}

PresignDownload(key) == {k \in {PresignGetURL(key)} : ValidKey(key)}

PresignOriginalDownload(id, ext) == {PresignGetURL(k) : k \in OriginalKey(id, ext)}

\* Mutant: path.Join drops the slash at the end.
ListRawUnended(id, maxKeys) ==
    UNION {ListObjects(Clean(<<"raw", w>>), maxKeys) : w \in NormalizeSegment(id)}

ListRaw(id, maxKeys) ==
    UNION {ListObjects(Append(Clean(<<"raw", w>>), ""), maxKeys) : w \in NormalizeSegment(id)}

PutOriginal(id, ext, body) ==
    \E key \in OriginalKey(id, ext) : bucket' = PutObject(key, body)

Delete(key) == ValidKey(key) /\ bucket' = DeleteObject(key)

Init == bucket = {}

Next ==
    \/ \E id \in Ids, ext \in Extensions, body \in Bodies : PutOriginal(id, ext, body)
    \/ \E key \in Keys : Delete(key)

Spec == Init /\ [][Next]_bucket

-----------------------------------------------------------------------------
\* Whatever string is given as a track id, an object is stored at
\* raw/{one allowed segment}/original{audio extension} or not at all
\* (track_storage.go:43).
TypeOK ==
    \A o \in bucket :
        /\ o.body \in Bodies
        /\ \E w \in Words, ext \in Extensions :
              ValidateAudioExtension(ext) /\ o.key = <<"raw", w, ext>>

\* PutOriginal does not refuse a name that the upload form has accepted, and
\* it overwrites no object of another track (upload.go:87, upload.go:106).
AcceptedNamesHaveKeys ==
    \A ext \in Extensions : IsSupportedAudio(ext) =>
        \A w \in Words, body \in Bodies : \E key \in OriginalKey(<<w>>, ext) :
            \A o \in bucket : o.key[2] # w => o \in PutObject(key, body)

\* validateKey checks a cleaned key and the S3 client sends the key as it is
\* (track_storage.go:209, s3.go:77): still, where a key meets an object, the
\* public URL and every presigned link made of that key lead to this object.
KeysAgree ==
    \A key \in Keys : \A o \in Get(key) :
        /\ PublicObjectURL(key) = Clean(BasePath) \o o.key
        /\ PresignUpload(key) = {o.key} /\ PresignDownload(key) = {o.key}

\* A listing shows objects of its track only, and all of them unless they are
\* more than the maximum, which says nothing of the rest (s3.go:128).
ListRawIsOfItsTrack ==
    \A id \in Ids, maxKeys \in 0 .. 2 : \A page \in ListRaw(id, maxKeys) :
        LET own == {o \in bucket : o.key[2] \in NormalizeSegment(id)}
            max == IF maxKeys = 0 THEN DefaultKeys ELSE maxKeys
        IN /\ page \subseteq own
           /\ page = own \/ Cardinality(page) = max
=============================================================================
