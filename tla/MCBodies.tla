--------------------------------- MODULE MCBodies ---------------------------------
(* Instances of Bodies for TLC: uploads of each kind of source; five reads of a
   body of two chunks; six accesses to a complete response, of several kinds. *)
EXTENDS Bodies, TLC

CONSTANTS chunk1, chunk2, next1, rest1, unknown1,
          text1, codec1, codec2, json1, json2, json3

MCMethod ==
  (chunk1 :> "chunk") @@ (chunk2 :> "chunk") @@ (next1 :> "next") @@ (rest1 :> "rest")
    @@ (unknown1 :> "unknown")

MCAccessor ==
  (text1 :> "text") @@ (codec1 :> "codec") @@ (codec2 :> "codec")
    @@ (json1 :> "json") @@ (json2 :> "json") @@ (json3 :> "json")

Charset(label) == [name |-> "charset", label |-> label]

\* No charset, a known one, one that no table has, and two headers.
MCHeaders == {<<>>, <<None>>, <<Charset("gbk")>>, <<Charset("bogus")>>,
              <<None, Charset("gbk")>>, <<Charset("bogus"), Charset("gbk")>>}

MCResponses == [headers : MCHeaders, bom : {None, "utf-8"}, json : BOOLEAN]

\* A server that writes the parameter's name in another case.
MCCapital ==
  {[headers |-> <<[name |-> "Charset", label |-> "gbk"]>>, bom |-> None, json |-> FALSE]}
================================================================================
