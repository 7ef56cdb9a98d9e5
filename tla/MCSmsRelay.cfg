CONSTANTS
  MoTiCount = 2
  MtTis = {8, 9}
  RefCount = 2
  MAX_RETRANS = 1
  TL_MAX_RETANS = 1
  None = None
SPECIFICATION Spec
INVARIANTS
 TypeOK
 RetransmitExists
 WaitIsTimed
 LayersAgree
 AckIsSent
