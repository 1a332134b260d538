CONSTANT Streams <- MCStreams
SPECIFICATION Spec
INVARIANT TypeOK FramesPartitionStream NothingWithheld
CHECK_DEADLOCK FALSE
