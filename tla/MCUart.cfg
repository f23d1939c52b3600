\* A ring of 6 bytes (512 in the firmware), an rx_buf of 3 (128).
CONSTANTS
    MaxBufferSize = 6
    UART_RX_BUF_SIZE = 3
    ByteModulus = 6
    TextLengths = {2, 3}
SPECIFICATION Spec
INVARIANTS
    TypeOK
    DmaReadsSending
    EchoStaysInBuffer
    EchoFollowsReception
PROPERTY QueueGetsRoom
