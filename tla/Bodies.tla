--------------------------------- MODULE Bodies ---------------------------------
(***************************************************************************)
(* The three ways in which a body crosses between Python and the           *)
(* transport: an upload (UploadStream), a response read piece by piece     *)
(* (StreamingBody) and one that is complete (BufferedResponse).            *)
(*                                                                         *)
(* The objects share no state, so a behaviour of several of them is, for   *)
(* each of them, a behaviour of that one alone: it is enough to consider   *)
(* one object at a time, of any of the three kinds.                        *)
(***************************************************************************)
EXTENDS StreamingBody, UploadStream

CONSTANTS Calls, Accessor, Responses, None, Considered

ASSUME NoneAssumption == None \notin Calls

VARIABLES
  object,                                                        \* which it is
  response, cachedText, cachedJson, call, text, value, late      \* BufferedResponse

Buffered == INSTANCE BufferedResponse

bufferedVars == <<response, cachedText, cachedJson, call, text, value, late>>
allVars == <<object, vars, uploadVars, bufferedVars>>

\* What the objects that are not considered are like makes no difference.
AllInit ==
  /\ object \in Considered
  /\ Init /\ UploadInit /\ Buffered!Init
  /\ object # "upload" => kind = "reader"
  /\ object # "buffer" => response = CHOOSE r \in Responses : TRUE

Uploads == object = "upload" /\ UploadNext /\ UNCHANGED <<object, vars, bufferedVars>>
Streams == object = "stream" /\ Next /\ UNCHANGED <<object, uploadVars, bufferedVars>>
Buffers == object = "buffer" /\ Buffered!Next /\ UNCHANGED <<object, vars, uploadVars>>

AllNext == Uploads \/ Streams \/ Buffers

\* A read of a stream is the only one that waits for its turn.
Turn(r) == object = "stream" /\ TakesTurn(r) /\ UNCHANGED <<object, uploadVars, bufferedVars>>

AllSpec == AllInit /\ [][AllNext]_allVars /\ \A r \in Reads : WF_allVars(Turn(r))

--------------------------------------------------------------------------------
\* Properties: those of the parts

\* text() and json() without encoding= see one decoding of the body.
PlainTextIsOneDecoding == Buffered!PlainTextIsOneDecoding

\* Late callers of json() get one object.
LateCallersShareOneValue == Buffered!LateCallersShareOneValue

\* text() decodes with the charset that was declared.
DeclaredCharsetDecides == Buffered!DeclaredCharsetDecides
================================================================================
