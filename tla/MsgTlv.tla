------------------------------- MODULE MsgTlv -------------------------------
(***************************************************************************)
(* The key-length-value messages of ot_app_msg_tlv.c and the list of a     *)
(* device's resources that ot_app_pair.c carries in one.                   *)
(*                                                                         *)
(* A message is the sequence of its blocks in the order they lie in the    *)
(* buffer; the number of used bytes in front of them is their sum.  A      *)
(* value is its length and what it means.                                  *)
(***************************************************************************)
EXTENDS Integers, SequencesExt

CONSTANTS TlvKeys, TlvLens, TlvSizes,   \* of the keys added one by one
          Paths,         \* the paths a device may offer: their lengths
          DevTypes,
          UriNameMax,    \* OTAPP_URI_MAX_NAME_LENGHT
          UrisPerDevice  \* OTAPP_PAIRED_URI_MAX

ASSUME TlvConstants ==
    /\ TlvKeys \cup TlvLens \cup TlvSizes \cup Paths \subseteq Nat
    /\ UriNameMax \in Nat /\ UrisPerDevice \in Nat \ {0}

VARIABLES size,     \* of the buffer
          blocks,   \* the message in it
          added,    \* what was added: a value per key
          offered,  \* the resources a device put into the message, if it did
          parsed    \* what the reader of that message found

tlvVars == <<size, blocks, added, offered, parsed>>

Header == 4     \* OT_APP_MSG_TLV_SIZE
Reserved == 2   \* OT_APP_MSG_TLV_RESERVED_BYTES
DevTypeLength == 4
\* otapp_pair_resUrisParseData_t: path, type and a flag, padded.
ParsedSize == 4 * ((UriNameMax + 3) \div 4) + DevTypeLength + 4

Used(msg) == FoldLeft(LAMBDA sum, b : sum + Header + b.length, 0, msg)
\* Mutant: a block of one byte at the end is overlooked.
Found_NotLast(msg, key) ==
    SelectInSeq([i \in DOMAIN msg |->
                    /\ msg[i].key = key
                    /\ Used(SubSeq(msg, 1, i - 1)) + Header + Reserved <= Used(msg)],
                LAMBDA hit : hit)
\* The first block with this key whose header lies within the used bytes.
Found(msg, key) ==
    SelectInSeq([i \in DOMAIN msg |->
                    /\ msg[i].key = key
                    /\ Used(SubSeq(msg, 1, i - 1)) + Header <= Used(msg)],
                LAMBDA hit : hit)

\* A message of less than six bytes is taken for an empty one.
keyGet(bufferSize, msg, key) ==
    LET usable == bufferSize - Reserved
        i == Found(msg, key)
        error == [result |-> "error"]
    IN IF bufferSize < Header + Reserved \/ Used(msg) > usable THEN error
       ELSE IF Used(msg) < Header + Reserved THEN [result |-> "empty"]
       ELSE IF i = 0 THEN [result |-> "no_exist"]
       ELSE IF Used(SubSeq(msg, 1, i - 1)) + Header + msg[i].length > usable THEN error
       ELSE [result |-> "exist", length |-> msg[i].length, value |-> msg[i].value]

\* Looks for the key only if there is room, and only behind the first header.
keyAdd(bufferSize, msg, key, length, value) ==
    LET usable == bufferSize - Reserved
    IN IF length = 0 \/ bufferSize < Header + length + Reserved \/ Used(msg) > usable
       THEN "error"
       ELSE IF Header + length > usable - Used(msg) THEN "no_space"
       ELSE IF Used(msg) > Header /\ keyGet(bufferSize, msg, key).result = "exist"
       THEN "exist" ELSE "ok"
WithKey(bufferSize, msg, key, length, value) ==
    IF keyAdd(bufferSize, msg, key, length, value) = "ok"
    THEN Append(msg, [key |-> key, length |-> length, value |-> value]) ELSE msg

\* calcualeBuffer, called for every value in turn.
calcualeBuffer(lengths) == FoldLeft(LAMBDA sum, l : sum + Header + l, Reserved, lengths)

------------------------------------------------------------------------------
(* The resources of a device: their number, then type and path of each.     *)

CountKey == 0
TypeKey(i) == 2 * (i - 1) + 1
PathKey(i) == 2 * (i - 1) + 2

uriResourcesCalculateBufSize(uris) ==
    calcualeBuffer(<<1>> \o FlattenSeq([i \in DOMAIN uris |-> <<DevTypeLength, uris[i].path>>]))

\* The results of keyAdd are not looked at.
uriResourcesCreate(bufferSize, uris) ==
    FoldLeft(LAMBDA msg, i :
                WithKey(bufferSize,
                        WithKey(bufferSize, msg, TypeKey(i), DevTypeLength, uris[i].devType),
                        PathKey(i), uris[i].path, uris[i].path),
             WithKey(bufferSize, << >>, CountKey, 1, Len(uris)),
             [i \in DOMAIN uris |-> i])

\* Mutant: room for one resource too few.
uriParseMessageCalculateBufSize_OneShort(payload) ==
    payload + (UrisPerDevice - 1) * ParsedSize
\* 0, and with it no buffer, for a message longer than the longest.
uriParseMessageCalculateBufSize(payload) ==
    LET longest == calcualeBuffer(<<1>> \o FlattenSeq(
                        [i \in 1..UrisPerDevice |-> <<DevTypeLength, UriNameMax>>]))
    IN IF payload > longest THEN 0 ELSE payload + UrisPerDevice * ParsedSize

\* An empty result is an error.
uriParseMessage(bufferSize, msg) ==
    LET get(key) == keyGet(bufferSize, msg, key)
        fits(key, max) == get(key).result = "exist" /\ get(key).length <= max
        number == get(CountKey).value
    IN IF /\ get(CountKey).result = "exist"
          /\ ParsedSize * number <= bufferSize - (Used(msg) + Reserved)
          /\ \A i \in 1..number : /\ fits(TypeKey(i), DevTypeLength)
                                  /\ fits(PathKey(i), UriNameMax)
       THEN [i \in 1..number |-> [devType |-> get(TypeKey(i)).value,
                                  path |-> get(PathKey(i)).value]]
       ELSE << >>

------------------------------------------------------------------------------
TlvInit == /\ size \in TlvSizes
           /\ blocks = << >> /\ added = << >> /\ offered = << >> /\ parsed = << >>

Add(key, length, value) ==
    LET result == keyAdd(size, blocks, key, length, value)
    IN /\ offered = << >>
       /\ blocks' = WithKey(size, blocks, key, length, value)
       /\ added' = IF result = "ok" /\ key \notin DOMAIN added
                   THEN [k \in DOMAIN added \cup {key} |->
                            IF k = key THEN value ELSE added[k]]
                   ELSE added
       /\ UNCHANGED <<size, offered, parsed>>

\* A device writes its resources into a buffer of the calculated size, or
\* shorter; the reader gives the message a buffer of the size it calculates.
Exchange(uris, short) ==
    /\ blocks = << >> /\ uris # << >>
    /\ offered' = uris
    /\ size' = uriResourcesCalculateBufSize(uris) - short
    /\ blocks' = uriResourcesCreate(size', uris)
    /\ parsed' = uriParseMessage(uriParseMessageCalculateBufSize(Used(blocks') + Reserved), blocks')
    /\ UNCHANGED added

TlvNext ==
    \/ \E key \in TlvKeys, length \in TlvLens, value \in BOOLEAN : Add(key, length, value)
    \/ \E uris \in SeqOf([devType : DevTypes, path : Paths], UrisPerDevice), short \in 0..1 :
           Exchange(uris, short)

TlvSpec == TlvInit /\ [][TlvNext]_tlvVars

------------------------------------------------------------------------------
(* A key that was added is found with the value it was added with; only a   *)
(* first value of one byte escapes the search until a second block follows. *)
AddedIsFound == offered = << >> => \A key \in DOMAIN added :
    LET got == keyGet(size, blocks, key)
    IN \/ Used(blocks) = Header + 1
       \/ got.result = "exist" /\ got.value = added[key]

(* What a device offers the reader finds, all of it and in its order, or    *)
(* nothing; and all of it unless a path is empty or too long, or the buffer *)
(* of the message smaller than calculated.                                  *)
ParsedIsOffered ==
    /\ parsed # << >> => parsed = offered
    /\ (\A i \in DOMAIN offered : offered[i].path \in 1..UriNameMax)
       /\ size = uriResourcesCalculateBufSize(offered) => parsed = offered
=============================================================================
