--------------------------- MODULE StateKeyCodec ---------------------------
(***************************************************************************)
(* How the entries of a state get into the data of a ConfigMap and back:   *)
(* the string form of a StateKey (key.go), its escaping into the           *)
(* characters a data key may have, and the reserved key of the metadata    *)
(* (configmap.go).  A string is the sequence of its bytes.                 *)
(***************************************************************************)
EXTENDS Integers, Sequences, SequencesExt, FiniteSets, FiniteSetsExt, Functions

CONSTANTS
    MaxLength,      \* bound on the length of strings
    Names,          \* field values of state keys
    Plain,          \* the bytes [-.a-zA-Z0-9], which are stored as they are
    HexDigits,      \* the digits strconv.ParseUint takes for base 16
    Hex,            \* the two lower-case digits of every byte to be escaped
    MetadataName    \* the bytes of metadataKey after its "_"

(* What an escape sequence starts with. *)
Escape == "_"

Alphabet == Plain \cup DOMAIN Hex \cup {"/"}
Strings(l) == UNION {[1..i -> Alphabet] : i \in 0..l}

(* Every byte is of one class.  A Kubernetes name has no "/"; metadataKey  *)
(* is "_metadata", so that what follows its "_" is no "x".                 *)
ASSUME CodecAssumption ==
    /\ MaxLength \in Nat
    /\ Names \subseteq Seq(Plain \cup DOMAIN Hex) \ {<<>>}
    /\ {Escape, "/"} \cap Plain = {} /\ Escape \in DOMAIN Hex /\ "/" \notin DOMAIN Hex
    /\ HexDigits \cup {"x"} \subseteq Plain
    /\ Hex \in [DOMAIN Hex -> HexDigits \X HexDigits] /\ IsInjective(Hex)
    /\ MetadataName \in Seq(Plain) \ {<<>>} /\ MetadataName[1] # "x"

(* Mutant: the escape character itself is not escaped. *)
EncodeByteOld(c) ==
    IF c = "/" THEN <<Escape, Escape>> ELSE IF c \in Plain \cup {Escape} THEN <<c>> ELSE <<Escape, "x">> \o Hex[c]

EncodeByte(c) ==
    IF c = "/" THEN <<Escape, Escape>> ELSE IF c \in Plain THEN <<c>> ELSE <<Escape, "x">> \o Hex[c]

EncodeStateKey(k) == FlattenSeq([i \in DOMAIN k |-> EncodeByte(k[i])])

(* ParseUint of two hexadecimal digits. *)
ByteOf(hh) == IF hh \in Range(Hex) THEN CHOOSE c \in DOMAIN Hex : Hex[c] = hh ELSE "other"

(* A scan from the left; a "_" that starts no escape sequence stays. *)
DecodeStateKey(k) ==
    LET hex(i) == i + 3 <= Len(k) /\ k[i + 1] = "x" /\ {k[i + 2], k[i + 3]} \subseteq HexDigits
        from[i \in 1..(Len(k) + 1)] ==
            IF i > Len(k) THEN <<>>
            ELSE IF k[i] # Escape THEN <<k[i]>> \o from[i + 1]
            ELSE IF i + 1 <= Len(k) /\ k[i + 1] = Escape THEN <<"/">> \o from[i + 2]
            ELSE IF hex(i) THEN <<ByteOf(<<k[i + 2], k[i + 3]>>)>> \o from[i + 4]
            ELSE <<Escape>> \o from[i + 1]
    IN  from[1]

MetadataKey == <<Escape>> \o MetadataName

(* Entries and data: functions from keys to hashes and to texts.  The      *)
(* metadata are put first, the entries over them.                          *)
BuildConfigMapData(entries) ==
    LET encoded == {EncodeStateKey(raw) : raw \in DOMAIN entries}
    IN  [k \in encoded \cup {MetadataKey} |->
            IF k \in encoded
            THEN entries[CHOOSE raw \in DOMAIN entries : EncodeStateKey(raw) = k]
            ELSE "metadata"]

ParseConfigMapData(data) ==
    LET keys == DOMAIN data \ {MetadataKey}
    IN  [raw \in {DecodeStateKey(k) : k \in keys} |->
            data[CHOOSE k \in keys : DecodeStateKey(k) = raw]]

(* A StateKey is the sequence of its fields, the namespace empty for       *)
(* cluster-scoped objects and the group empty for the core group.          *)
Join(fields) == FlattenSeq([i \in DOMAIN fields |-> IF i = 1 THEN fields[i] ELSE <<"/">> \o fields[i]])

StateKeyString(key) == Join(IF key[5] = <<>> THEN SubSeq(key, 1, 4) \o <<key[6]>> ELSE key)

(* The text is cut at the first n - 1 slashes. *)
SplitN(str, n) ==
    LET slashes == {i \in DOMAIN str : str[i] = "/"}
        cut(j) == CHOOSE i \in slashes : Cardinality({h \in slashes : h <= i}) = j
        last == Min({Cardinality(slashes), n - 1}) + 1
    IN  [j \in 1..last |-> SubSeq(str, IF j = 1 THEN 1 ELSE cut(j - 1) + 1,
                                       IF j = last THEN Len(str) ELSE cut(j) - 1)]

ParseStateKey(str) ==
    LET parts == SplitN(str, 6)
    IN  CASE Len(parts) = 5 -> SubSeq(parts, 1, 4) \o <<<<>>, parts[5]>>
          [] Len(parts) = 6 -> parts
          [] OTHER -> <<>>

StateKeys ==
    {<<manifest, group, version, kind, ns, name>> :
        manifest \in Names, group \in Names \cup {<<>>}, version \in Names, kind \in Names,
        ns \in Names \cup {<<>>}, name \in Names}

-----------------------------------------------------------------------------
(* Storing loses nothing: the data keys are ones the API server accepts,   *)
(* decoding undoes encoding for every string, no two entries and no entry  *)
(* and the metadata share a data key, and every StateKey can be parsed     *)
(* from its string.                                                        *)
StoringIsLossless ==
    /\ \A raw \in Strings(MaxLength) :
         /\ DecodeStateKey(EncodeStateKey(raw)) = raw
         /\ Range(EncodeStateKey(raw)) \subseteq Plain \cup {Escape}
    /\ \A a, b \in Strings(2) :
         LET entries == [raw \in {a, b} |-> IF raw = a THEN "one" ELSE "other"]
         IN  ParseConfigMapData(BuildConfigMapData(entries)) = entries
    /\ \A key \in StateKeys : ParseStateKey(StateKeyString(key)) = key
=============================================================================
