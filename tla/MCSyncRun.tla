----------------------------- MODULE MCSyncRun -----------------------------
EXTENDS SyncRun

CONSTANTS f1, f2, l1, given

\* With DeepSOC: one alert without an event_id that the FlowShadow lists
\* twice, filed under two seconds and so under two record ids.  The stamp of
\* the first cannot be read, as of an event whose time is a number.  The alert
\* has none of the fields a fingerprint is made of, and so has its fingerprint
\* in common with the body of a refusal.
RemoteIds == [f \in Fps |-> given]
RemoteErrors == {[fp |-> f1, id |-> NoId, rec |-> "noid:0", time |-> 1, stamp |-> 0]}
RemoteFeed == {[fp |-> f1, id |-> NoId, rec |-> "noid:1", time |-> 1, stamp |-> 2],
               [fp |-> f1, id |-> NoId, rec |-> "noid:2", time |-> 2, stamp |-> 3]} \cup RemoteErrors
RemoteAlerts == {[fp |-> f1, id |-> NoId]}
RemoteEpoch == [t \in Stamps |-> CASE t = 1 -> 1 [] t = 3 -> 2 [] OTHER -> 0]

\* Without it: the id made from the first alert's fingerprint is its own; the
\* second alert, which is the one the FlowShadow lists, comes with an id that
\* others may have taken.
LocalIds == [f \in Fps |-> IF f = f1 THEN l1 ELSE given]
LocalFeed == {[fp |-> f2, id |-> given, rec |-> "given", time |-> 1, stamp |-> 1]}
LocalAlerts == [fp : {f1}, id : {NoId, given}] \cup [fp : {f2}, id : {given}]
LocalEpoch == [t \in Stamps |-> t]
=============================================================================
