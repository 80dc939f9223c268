CONSTANTS
  Pids <- TwoPids
  Pcrs <- FewPcrs
  PacketSize = 2
  FramePackets = 2
  RtpHeader = 1
  BufFrames = 2
  TickRate = 3
  Bitrate = 4
  Width = 48
  SeqMod = 3
  MaxFrames = 5
SPECIFICATION Spec
PROPERTY
  SocketErrorsAreNoticed
