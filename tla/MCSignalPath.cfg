SPECIFICATION Spec
CONSTANTS
  PacketIDs = {"pa", "si", "tlv"}
  PAPacket = "pa"
  Control = "tlv"
  MaxSignaling = 3
  SiTables = {"sdt", "open", "sched", "NIT", "TOT"}
  SegmentSize = 4
  VersionRange = 4
  ActualSDTs = {"sdt", "open"}
  ActualNITs = {"NIT"}
  PresentFollowing = "pf"
  Schedules = {"sched"}
  Plans <- MCPlans
  Messages <- MCMessages
  Sections <- MCSections
INVARIANTS MessagesWhole ReceiverSees
PROPERTIES NeverRevived
CHECK_DEADLOCK FALSE
