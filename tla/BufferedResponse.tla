---------------------------- MODULE BufferedResponse ----------------------------
(***************************************************************************)
(* response.rs: one Response, whose body is complete, read by several      *)
(* threads.  text() and json() keep what they made in two OnceLocks.       *)
(*                                                                         *)
(* A call holds the GIL throughout, but json.loads is Python code, in      *)
(* which other threads may come in.  What a text is, here, is the decoder  *)
(* that made it; what a JSON value is, the call that parsed it.            *)
(***************************************************************************)
EXTENDS Naturals, Sequences, SequencesExt

CONSTANTS Calls,      \* calls of text() and json()
          Accessor,   \* "text", "codec" for text(encoding=...), or "json"
          Responses,  \* the responses to consider
          None        \* an empty OnceLock, no label, no byte order mark

VARIABLES
  response,    \* its Content-Type headers, its byte order mark, whether it is JSON
  cachedText,
  cachedJson,
  call,        \* how far each call has got
  text,        \* the decoder of the text that it returned or parsed
  value,       \* the JSON value that it returned
  late         \* history: a value was cached when the call was made

caches == <<cachedText, cachedJson>>
vars == <<response, caches, call, text, value, late>>

Known == {"utf-8", "gbk"}   \* labels of the WHATWG table

\* What one Content-Type header may hold: a charset parameter, or none.  The
\* name of a parameter is not case-sensitive.
ContentType == [name : {"charset", "Charset"}, label : STRING] \cup {None}

Init ==
  /\ response \in Responses
  /\ cachedText = None
  /\ cachedJson = None
  /\ call = [c \in Calls |-> "new"]
  /\ text = [c \in Calls |-> None]
  /\ value = [c \in Calls |-> None]
  /\ late = [c \in Calls |-> FALSE]

--------------------------------------------------------------------------------
\* Decoding

\* parse_encoding: strip_prefix("charset=") in the first header that has it.
ParseEncoding(headers) ==
  LET labelled == SelectSeq(headers, LAMBDA h : h # None /\ h.name = "charset")
  IN  IF labelled = <<>> THEN None ELSE Head(labelled).label

DeclaredDecoder(label) == IF label \in Known THEN label ELSE "utf-8"

\* Encoding::decode: a byte order mark outranks the decoder it was asked for.
DecodeBody(decoder) == IF response.bom = None THEN decoder ELSE response.bom

PlainText == DecodeBody(DeclaredDecoder(ParseEncoding(response.headers)))

--------------------------------------------------------------------------------
Return(c, outcome) == call' = [call EXCEPT ![c] = outcome]
Made(c) == late' = [late EXCEPT ![c] = cachedJson # None]

\* OnceLock::set
Set(cell, v) == IF cell = None THEN v ELSE cell

\* Mutant: the text of an encoding= call goes into the cache as well.
TextWithCodecCached(c) ==
  /\ Accessor[c] = "codec"
  /\ call[c] = "new"
  /\ Return(c, "returned") /\ text' = [text EXCEPT ![c] = "codec"]
  /\ cachedText' = Set(cachedText, "codec")
  /\ Made(c)
  /\ UNCHANGED <<response, cachedJson, value>>

\* text(encoding=...): a codec of Python's registry, or LookupError.
TextWithCodec(c) ==
  /\ Accessor[c] = "codec"
  /\ call[c] = "new"
  /\ \/ Return(c, "returned") /\ text' = [text EXCEPT ![c] = "codec"]
     \/ Return(c, "raised") /\ UNCHANGED text
  /\ Made(c)
  /\ UNCHANGED <<response, caches, value>>

\* The text of the cache, or else a decoding that goes there.
TakeText(c) ==
  /\ text' = [text EXCEPT ![c] = Set(cachedText, PlainText)]
  /\ cachedText' = Set(cachedText, PlainText)

Text(c) ==
  /\ Accessor[c] = "text"
  /\ call[c] = "new"
  /\ TakeText(c)
  /\ Return(c, "returned")
  /\ Made(c)
  /\ UNCHANGED <<response, cachedJson, value>>

JsonHit(c) ==
  /\ Accessor[c] = "json"
  /\ call[c] = "new"
  /\ cachedJson # None
  /\ value' = [value EXCEPT ![c] = cachedJson]
  /\ Return(c, "returned")
  /\ Made(c)
  /\ UNCHANGED <<response, caches, text>>

\* json() takes the text, and enters json.loads.
JsonMiss(c) ==
  /\ Accessor[c] = "json"
  /\ call[c] = "new"
  /\ cachedJson = None
  /\ TakeText(c)
  /\ Return(c, "loading")
  /\ Made(c)
  /\ UNCHANGED <<response, cachedJson, value>>

\* Mutant: the value that was parsed last replaces the one in the cache.
JsonLoadedReplaces(c) ==
  /\ call[c] = "loading"
  /\ response.json
  /\ value' = [value EXCEPT ![c] = c]
  /\ cachedJson' = c
  /\ Return(c, "returned")
  /\ UNCHANGED <<response, cachedText, text, late>>

\* json.loads returns.  A call that finds another's value in the cache by then
\* returns its own.
JsonLoaded(c) ==
  /\ call[c] = "loading"
  /\ response.json
  /\ value' = [value EXCEPT ![c] = c]
  /\ cachedJson' = Set(cachedJson, c)
  /\ Return(c, "returned")
  /\ UNCHANGED <<response, cachedText, text, late>>

\* JsonDecodeError: nothing is cached, and the next call parses again.
JsonRaises(c) ==
  /\ call[c] = "loading"
  /\ ~response.json
  /\ Return(c, "raised")
  /\ UNCHANGED <<response, caches, text, value, late>>

Next ==
  \E c \in Calls :
    TextWithCodec(c) \/ Text(c) \/ JsonHit(c) \/ JsonMiss(c) \/ JsonLoaded(c) \/ JsonRaises(c)

--------------------------------------------------------------------------------
\* Properties

Plain(c) == Accessor[c] # "codec"

\* Every text() and json() without encoding= sees one decoding of the body, the
\* browser's choice of decoder, whoever filled the cache and whatever codec other
\* callers asked for meanwhile.
PlainTextIsOneDecoding ==
  \A c \in Calls : Plain(c) /\ text[c] # None => text[c] = PlainText

\* Whoever calls json() after a value was first cached gets that very object, even
\* if threads that were parsing at that moment come back later with their own:
\* what one caller changes in it, all the others see.
LateCallersShareOneValue ==
  \A c \in Calls :
    Accessor[c] = "json" /\ late[c] /\ call[c] = "returned" => value[c] = cachedJson

\* text() decodes with the charset that Content-Type declares: UTF-8 is for
\* responses that declare none or an unusable label, and for byte order marks.
DeclaredCharsetDecides ==
  \A c \in Calls :
    LET declared == SelectSeq(response.headers, LAMBDA h : h # None)
    IN  /\ Accessor[c] = "text" /\ call[c] = "returned"
        /\ response.bom = None
        /\ declared # <<>> /\ Head(declared).label \in Known
        => text[c] = Head(declared).label
================================================================================
