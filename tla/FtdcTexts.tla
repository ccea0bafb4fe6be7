------------------------------ MODULE FtdcTexts ------------------------------
(***************************************************************************)
(* The texts the module writes and the buffers it writes them to.  Nothing *)
(* is shared between these but the ways of printing and scanning, so a     *)
(* behaviour is about one of them:                                         *)
(*                                                                         *)
(*   value     FtdcInfoValues  what INFO prints for one field              *)
(*   sample    FtdcSampleScan  a sample of FtdcCollector, and what is read *)
(*   record    FtdcRecords     what the encoder makes of samples           *)
(*   metadata  FtdcMetadata    the metadata line and the sidecar           *)
(*   buffer    FtdcBuffer      the memory all of them but the metadata are *)
(*                             written to                                  *)
(***************************************************************************)
EXTENDS FtdcBuffer, FtdcSampleScan, FtdcInfoValues, FtdcMetadata, FtdcRecords

VARIABLE subject

bufferVars == vars
textsVars == <<bufferVars, collectorVars, metadataVars, recordVars, printed, subject>>

TextsInit ==
  /\ Init /\ CollectorInit /\ MetadataInit /\ RecordsInit /\ ValuesInit
  /\ subject \in {"value", "sample", "record", "metadata", "buffer"}
  /\ subject # "buffer" => writer = "collector"

ValueStep ==
  /\ subject = "value" /\ ValuesNext
  /\ UNCHANGED <<bufferVars, collectorVars, metadataVars, recordVars, subject>>

SampleStep ==
  /\ subject = "sample" /\ CollectorNext
  /\ UNCHANGED <<bufferVars, metadataVars, recordVars, printed, subject>>

RecordStep(text) ==
  /\ subject = "record" /\ Encode(text)
  /\ UNCHANGED <<bufferVars, collectorVars, metadataVars, printed, subject>>

MetadataStep ==
  /\ subject = "metadata" /\ MetadataNext
  /\ UNCHANGED <<bufferVars, collectorVars, recordVars, printed, subject>>

BufferStep ==
  /\ subject = "buffer" /\ Next
  /\ UNCHANGED <<collectorVars, metadataVars, recordVars, printed, subject>>

TextsNext ==
  \/ ValueStep
  \/ SampleStep
  \/ \E text \in Samples : RecordStep(text)
  \/ MetadataStep
  \/ BufferStep

\* As in FtdcBuffer: an append that has begun goes on.
TextsSpec == TextsInit /\ [][TextsNext]_textsVars /\ WF_vars(Step)
-----------------------------------------------------------------------------
\* Every line of a file and every sidecar is one JSON value (README.md:81-92),
\* whatever the replies and samples it is made of.
TextsAreJson ==
  /\ subject = "record" => RecordsAreJson
  /\ subject = "metadata" => MetadataIsJson /\ SidecarIsJson
=============================================================================
