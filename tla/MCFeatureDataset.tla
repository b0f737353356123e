--------------------------- MODULE MCFeatureDataset -------------------------
(***************************************************************************)
(* FeatureDataset with a time unit of 300 s, so that the windows, horizons   *)
(* and buckets keep the proportions of the code.                             *)
(***************************************************************************)
EXTENDS FeatureDataset

Sample(vehicle, segment, at) == [vehicle |-> vehicle, segment |-> segment, ts |-> at]

\* 23:50 on a Friday in UTC, 19:50 at UTC-04:00.
Friday == 5 * 24 * 12 - 2

\* On the edges of the windows of the buckets Friday + 1 .. Friday + 4, with a tie,
\* with samples that are a target of one row and behind the features of a later
\* one, and with targets of the training, the validation and the test part.
MCSamples ==
  {Sample("v1", 1, Friday), Sample("v1", 1, Friday + 3), Sample("v2", 1, Friday + 3),
   Sample("v1", 1, Friday + 4), Sample("v2", 2, Friday + 1)}

Range(start, end, offset, bucket_s, horizons_s) ==
  [start |-> start, end |-> end, offset |-> offset, bucket_s |-> bucket_s, horizons_s |-> horizons_s]

\* The last two configurations are refused.
MCConfigs ==
  {Range(Friday, Friday + 4, 0, 1, <<1, 2>>),
   Range(Friday, Friday + 2, -4 * 12, 1, <<1>>),
   Range(Friday, Friday, 0, 1, <<1>>),
   Range(Friday, Friday + 1, 0, 0, <<1>>)}
=============================================================================
