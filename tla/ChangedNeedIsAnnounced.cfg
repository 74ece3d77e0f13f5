SPECIFICATION Spec
PROPERTY ChangedNeedIsAnnounced
CHECK_DEADLOCK FALSE
