--------------------------------- MODULE Amf ---------------------------------
(* The values of RTMP commands as bytes: AMFEncoder and AMFDecoder of       *)
(* Rtmp/amf.cpp.  A value is a record [type, v]: v is the eight bytes of a  *)
(* number, the integer, the Boolean, the characters of a string, a function *)
(* from keys to values (object, ecma) or a sequence of values (strict).     *)
(* Keys have one character at most.  An integer's double stands for its     *)
(* eight bytes in order.  Version 3 of the format is left out.              *)
EXTENDS Integers, Sequences, SequencesExt, FiniteSets, TLC, Splitters

AMF0_NUMBER == 0
AMF0_BOOLEAN == 1
AMF0_STRING == 2
AMF0_OBJECT == 3
AMF0_NULL == 5
AMF0_UNDEFINED == 6
AMF0_ECMA_ARRAY == 8
AMF0_OBJECT_END == 9
AMF0_STRICT_ARRAY == 10

Value(type, v) == [type |-> type, v |-> v]
Null == Value("null", <<>>)
Undefined == Value("undefined", <<>>)
Thrown == Value("thrown", <<>>)     \* the decoder threw

Double(n) == <<0, 0, 0, 0, 0>> \o Be(n, 3)

(* std::map keeps its keys in order.                                        *)
Before(a, b) == b # <<>> /\ (a = <<>> \/ a[1] < b[1])
Keys(map) == SetToSortSeq(DOMAIN map, Before)

WriteKey(s) == Be(Len(s), 2) \o s
ObjectEnd == WriteKey(<<>>) \o <<AMF0_OBJECT_END>>

RECURSIVE Put(_)
Pairs(map) == FlattenSeq([i \in DOMAIN Keys(map) |-> WriteKey(Keys(map)[i]) \o Put(map[Keys(map)[i]])])
Items(arr) == FlattenSeq([i \in DOMAIN arr |-> Put(arr[i])])

(* operator<<(AMFValue): integers become numbers, empty strings null.       *)
Put(val) ==
  CASE val.type = "number"    -> <<AMF0_NUMBER>> \o val.v
    [] val.type = "integer"   -> <<AMF0_NUMBER>> \o Double(val.v)
    [] val.type = "boolean"   -> <<AMF0_BOOLEAN, IF val.v THEN 1 ELSE 0>>
    [] val.type = "string"    -> IF val.v = <<>> THEN <<AMF0_NULL>> ELSE <<AMF0_STRING>> \o WriteKey(val.v)
    [] val.type = "object"    -> <<AMF0_OBJECT>> \o Pairs(val.v) \o ObjectEnd
    [] val.type = "ecma"      -> <<AMF0_ECMA_ARRAY>> \o Be(Cardinality(DOMAIN val.v), 4) \o Pairs(val.v) \o ObjectEnd
    [] val.type = "strict"    -> <<AMF0_STRICT_ARRAY>> \o Be(Len(val.v), 4) \o Items(val.v)
    [] val.type = "null"      -> <<AMF0_NULL>>
    [] val.type = "undefined" -> <<AMF0_UNDEFINED>>

-----------------------------------------------------------------------------
(* What a load of the decoder gives, and how far it has read.               *)
Loaded(pos, v) == [pos |-> pos, v |-> v]
Throws == Loaded(0, Thrown)
Failed(k) == k.v.type = "thrown"
Has(b, pos, n) == pos + n <= Len(b)
Is(b, pos, marker) == Has(b, pos, 1) /\ b[pos + 1] = marker

LoadKey(b, pos) ==
  IF ~Has(b, pos, 2) THEN Throws
  ELSE LET n == Val(SubSeq(b, pos + 1, pos + 2))
       IN IF Has(b, pos + 2, n) THEN Loaded(pos + 2 + n, Value("string", SubSeq(b, pos + 3, pos + 2 + n))) ELSE Throws
LoadString(b, pos) == IF Is(b, pos, AMF0_STRING) THEN LoadKey(b, pos + 1) ELSE Throws
LoadNumber(b, pos) ==
  IF Is(b, pos, AMF0_NUMBER) /\ Has(b, pos + 1, 8) THEN Loaded(pos + 9, Value("number", SubSeq(b, pos + 2, pos + 9))) ELSE Throws
LoadBoolean(b, pos) ==
  IF Is(b, pos, AMF0_BOOLEAN) /\ Has(b, pos + 1, 1) THEN Loaded(pos + 2, Value("boolean", b[pos + 2] # 0)) ELSE Throws

RECURSIVE LoadValue(_, _)
RECURSIVE LoadPairs(_, _, _, _)
RECURSIVE LoadItems(_, _, _, _)
(* Pairs until an empty key; of two with one key the first stays.           *)
LoadPairs(type, b, pos, map) ==
  LET k == LoadKey(b, pos)
      val == LoadValue(b, k.pos)
  IN IF Failed(k) THEN Throws
     ELSE IF k.v.v = <<>>
     THEN IF Is(b, k.pos, AMF0_OBJECT_END) THEN Loaded(k.pos + 1, Value(type, map)) ELSE Throws
     ELSE IF Failed(val) THEN Throws
     ELSE LoadPairs(type, b, val.pos, map @@ (k.v.v :> val.v))
LoadItems(n, b, pos, arr) ==
  IF n = 0 THEN Loaded(pos, Value("strict", arr))
  ELSE LET val == LoadValue(b, pos) IN IF Failed(val) THEN Throws ELSE LoadItems(n - 1, b, val.pos, Append(arr, val.v))

LoadObject(b, pos) == LoadPairs("object", b, pos + 1, <<>>)
(* Faulty form: the number of pairs is taken for the first key.             *)
LoadEcmaBare(b, pos) == LoadPairs("ecma", b, pos + 1, <<>>)
LoadEcma(b, pos) == IF Has(b, pos + 1, 4) THEN LoadPairs("ecma", b, pos + 5, <<>>) ELSE Throws
LoadArr(b, pos) == IF Has(b, pos + 1, 4) THEN LoadItems(Val(SubSeq(b, pos + 2, pos + 5)), b, pos + 5, <<>>) ELSE Throws

LoadValue(b, pos) ==
  CASE Is(b, pos, AMF0_STRING)       -> LoadString(b, pos)
    [] Is(b, pos, AMF0_NUMBER)       -> LoadNumber(b, pos)
    [] Is(b, pos, AMF0_BOOLEAN)      -> LoadBoolean(b, pos)
    [] Is(b, pos, AMF0_OBJECT)       -> LoadObject(b, pos)
    [] Is(b, pos, AMF0_ECMA_ARRAY)   -> LoadEcma(b, pos)
    [] Is(b, pos, AMF0_NULL)         -> Loaded(pos + 1, Null)
    [] Is(b, pos, AMF0_UNDEFINED)    -> Loaded(pos + 1, Undefined)
    [] Is(b, pos, AMF0_STRICT_ARRAY) -> LoadArr(b, pos)
    [] OTHER                         -> Throws

-----------------------------------------------------------------------------
(* sendInvoke, sendReply: the name, the number of the request, the rest.    *)
CommandBody(name, id, rest) ==
  <<AMF0_STRING>> \o WriteKey(name) \o Put(Value("integer", id)) \o Items(rest)

RECURSIVE LoadRest(_, _)
LoadRest(b, pos) ==
  LET k == LoadValue(b, pos)
  IN IF pos = Len(b) THEN <<>> ELSE <<k.v>> \o (IF Failed(k) THEN <<>> ELSE LoadRest(b, k.pos))

(* onProcessCmd, RtmpPlayer::onRtmpChunk: what the receiver makes of it.    *)
Command(b) ==
  LET name == LoadString(b, 0)
      id == LoadNumber(b, name.pos)
  IN IF Failed(name) THEN <<Thrown>>
     ELSE IF Failed(id) THEN <<name.v, Thrown>>
     ELSE <<name.v, id.v>> \o LoadRest(b, id.pos)
=============================================================================
